---- MODULE Spec2Model ----
(***************************************************************************)
(* Telemetry synchronisation and SRT parsing of Video-SRT_to_3D_Map.       *)
(*                                                                         *)
(* Numbers.  A cell of a data frame is a record [kind, n, d]: kind "num"   *)
(* carries the exact rational n/d in lowest terms (float rounding is not   *)
(* modelled), kind "nan" is the float NaN and kind "none" the Python None  *)
(* held by an object-dtype column.  Timestamps are integers in model time  *)
(* units.  Angles are whole degrees; sin and cos come from a table scaled  *)
(* by 10000 and arctan2     gives the whole degree below the direction.    *)
(***************************************************************************)
EXTENDS Integers, Sequences, FiniteSets, TLC

VARIABLES caller_df, telemetry_df, build, frame_timestamps, result, calls,
          first_call, srt_file, telemetry_data, parse_result, parse_calls,
          flight_df, flight, num_frames, frame_rate, returned_timestamps,
          srt_timestamps, video_duration, tolerance, duration_ok,
          image_paths, telemetry_list, progress_callback, commands, progress,
          inject_result, batch_result,
          processing, thread_pc, events, started, start_request,
          wait_timeout, elapsed, polls, progress_calls, wait_callback,
          wait_result

vars == <<caller_df, telemetry_df, build, frame_timestamps, result, calls,
          first_call, srt_file, telemetry_data, parse_result, parse_calls,
          flight_df, flight, num_frames, frame_rate, returned_timestamps,
          srt_timestamps, video_duration, tolerance, duration_ok,
          image_paths, telemetry_list, progress_callback, commands, progress,
          inject_result, batch_result,
          processing, thread_pc, events, started, start_request,
          wait_timeout, elapsed, polls, progress_calls, wait_callback,
          wait_result>>

syncVars == <<caller_df, telemetry_df, build, frame_timestamps, result, calls,
             first_call>>
parseVars == <<srt_file, telemetry_data, parse_result, parse_calls>>
classifyVars == <<flight_df, flight>>
extractorVars == <<num_frames, frame_rate, returned_timestamps>>
validateVars == <<srt_timestamps, video_duration, tolerance, duration_ok>>
exifVars == <<image_paths, telemetry_list, progress_callback, commands,
             progress, inject_result, batch_result>>
pipelineVars == <<processing, thread_pc, events, started, start_request>>
webodmVars == <<wait_timeout, elapsed, polls, progress_calls, wait_callback,
               wait_result>>
appVars == <<validateVars, exifVars, pipelineVars, webodmVars>>

----------------------------------------------------------------------------
(* Bounds of the model *)

MaxSamples == 2
MaxFrames == 2
MaxTime == 3
MaxCalls == 2

----------------------------------------------------------------------------
(* Values *)

Abs(x) == IF x < 0 THEN -x ELSE x

RECURSIVE GCD(_, _)
GCD(a, b) == IF b = 0 THEN a ELSE GCD(b, a % b)

Num(n, d) ==
    LET g == GCD(Abs(n), Abs(d))
        s == IF d < 0 THEN -1 ELSE 1
    IN  [kind |-> "num", n |-> (s * n) \div g, d |-> (s * d) \div g]

NaN == [kind |-> "nan", n |-> 0, d |-> 1]
None == [kind |-> "none", n |-> 0, d |-> 1]

\* pd.isna / np.isnan on a float: what counts as "no data point"
IsMissing(v) == v.kind # "num"

Min(S) == CHOOSE x \in S : \A y \in S : x <= y
Max(S) == CHOOSE x \in S : \A y \in S : y <= x

SeqToSet(s) == {s[i] : i \in 1..Len(s)}

RECURSIVE Flatten(_)
Flatten(ss) == IF ss = <<>> THEN <<>> ELSE Head(ss) \o Flatten(Tail(ss))

Reverse(s) == [i \in 1..Len(s) |-> s[Len(s) + 1 - i]]

----------------------------------------------------------------------------
(* Columns of telemetry_sync.py *)

LinearColumns == <<"latitude", "longitude", "altitude", "rel_altitude", "gimbal_pitch">>
CircularColumns == <<"yaw", "gimbal_yaw">>

\* The data frame: the columns beside 'timestamp', and the rows in order.
\* A row is [timestamp, vals] with vals a function on the columns.

\* A column that holds a None is an object-dtype column; a float64 column
\* holds numbers and NaN only.
IsObjectDtype(df, col) == \E i \in 1..Len(df.rows) : df.rows[i].vals[col].kind = "none"

----------------------------------------------------------------------------
(* numpy: deg2rad, sin, cos, arctan2, rad2deg on whole degrees *)

\* round(10000 * sin(d degrees)) for d = 0..90
SinTable ==
    <<0, 175, 349, 523, 698, 872, 1045, 1219, 1392, 1564,
      1736, 1908, 2079, 2250, 2419, 2588, 2756, 2924, 3090, 3256,
      3420, 3584, 3746, 3907, 4067, 4226, 4384, 4540, 4695, 4848,
      5000, 5150, 5299, 5446, 5592, 5736, 5878, 6018, 6157, 6293,
      6428, 6561, 6691, 6820, 6947, 7071, 7193, 7314, 7431, 7547,
      7660, 7771, 7880, 7986, 8090, 8192, 8290, 8387, 8480, 8572,
      8660, 8746, 8829, 8910, 8988, 9063, 9135, 9205, 9272, 9336,
      9397, 9455, 9511, 9563, 9613, 9659, 9703, 9744, 9781, 9816,
      9848, 9877, 9903, 9925, 9945, 9962, 9976, 9986, 9994, 9998,
      10000>>

SinDeg(a) ==
    LET r == a % 360
    IN  IF r <= 90 THEN SinTable[r + 1]
        ELSE IF r <= 180 THEN SinTable[180 - r + 1]
        ELSE IF r <= 270 THEN -SinTable[r - 180 + 1]
        ELSE -SinTable[360 - r + 1]

CosDeg(a) == SinDeg(a + 90)

\* The largest whole degree d in lo..hi whose direction is not
\* counter-clockwise past the direction (c, s).
RECURSIVE DegreeBelow(_, _, _, _)
DegreeBelow(lo, hi, s, c) ==
    IF lo >= hi THEN lo
    ELSE LET mid == (lo + hi + 1) \div 2
         IN  IF CosDeg(mid) * s - SinDeg(mid) * c >= 0
             THEN DegreeBelow(mid, hi, s, c)
             ELSE DegreeBelow(lo, mid - 1, s, c)

\* np.rad2deg(np.arctan2(s, c)): a value in (-180, 180], here the whole
\* degree below it; arctan2(0, 0) is 0.
ArcTan2Deg(s, c) ==
    LET d == IF s = 0 /\ c = 0 THEN 0
             ELSE IF s >= 0 /\ c > 0 THEN DegreeBelow(0, 89, s, c)
             ELSE IF s > 0 /\ c <= 0 THEN DegreeBelow(90, 179, s, c)
             ELSE IF s <= 0 /\ c < 0 THEN DegreeBelow(180, 269, s, c)
             ELSE DegreeBelow(270, 359, s, c)
    IN  IF d > 180 THEN d - 360 ELSE d

----------------------------------------------------------------------------
(* pandas: concat, sort_values, merge *)

TelemetryKeysUntagged(df) ==
    [i \in 1..Len(df.rows) |->
        [timestamp |-> df.rows[i].timestamp, is_telemetry |-> FALSE]]

\* self.telemetry_df[['timestamp']].assign(is_telemetry=True)
TelemetryKeys(df) ==
    [i \in 1..Len(df.rows) |->
        [timestamp |-> df.rows[i].timestamp, is_telemetry |-> TRUE]]

\* pd.DataFrame({'timestamp': frame_timestamps}).assign(is_telemetry=False)
FrameKeys(fts) ==
    [i \in 1..Len(fts) |-> [timestamp |-> fts[i], is_telemetry |-> FALSE]]

\* sort_values('timestamp') sorts with quicksort, which is not stable: rows
\* with equal timestamps come out in an order the numpy build decides.  The
\* two orders modelled are the order of the input and its reverse.
RECURSIVE SortValues(_, _, _)
SortValues(rows, times, ties) ==
    IF times = {} THEN <<>>
    ELSE LET t == Min(times)
             same == SelectSeq(rows, LAMBDA r : r.timestamp = t)
         IN  (IF ties = "stable" THEN same ELSE Reverse(same))
                 \o SortValues(rows, times \ {t}, ties)

\* A merge that fills the telemetry rows only: a frame row starts empty
MergeLeftTelemetryRows(left, df) ==
    Flatten([i \in 1..Len(left) |->
        LET m == SelectSeq(df.rows, LAMBDA r : r.timestamp = left[i].timestamp)
        IN  IF m = <<>> \/ ~left[i].is_telemetry
            THEN <<[timestamp |-> left[i].timestamp,
                    is_telemetry |-> left[i].is_telemetry,
                    vals |-> [c \in df.columns |-> NaN]]>>
            ELSE [j \in 1..Len(m) |->
                    [timestamp |-> left[i].timestamp,
                     is_telemetry |-> left[i].is_telemetry,
                     vals |-> m[j].vals]]])

\* combined.merge(self.telemetry_df, on='timestamp', how='left'): one row
\* for every pair of a left row and a telemetry row with the same timestamp,
\* in the order of the left rows; a left row without a match is kept once
\* with NaN in every telemetry column.
MergeLeft(left, df) ==
    Flatten([i \in 1..Len(left) |->
        LET m == SelectSeq(df.rows, LAMBDA r : r.timestamp = left[i].timestamp)
        IN  IF m = <<>>
            THEN <<[timestamp |-> left[i].timestamp,
                    is_telemetry |-> left[i].is_telemetry,
                    vals |-> [c \in df.columns |-> NaN]]>>
            ELSE [j \in 1..Len(m) |->
                    [timestamp |-> left[i].timestamp,
                     is_telemetry |-> left[i].is_telemetry,
                     vals |-> m[j].vals]]])

----------------------------------------------------------------------------
(* Interpolation *)

\* np.interp between two points: fp0 + (fp1 - fp0) * k / m, exactly
Lerp(v0, v1, k, m) ==
    Num(v0.n * v1.d * (m - k) + v1.n * v0.d * k, v0.d * v1.d * m)

InterpolateLinearFillZero(col) ==
    [i \in 1..Len(col) |-> IF IsMissing(col[i]) THEN Num(0, 1) ELSE col[i]]

\* limit_direction='forward': NaN before the first number are left alone
InterpolateLinearForward(col) ==
    LET valid == {i \in 1..Len(col) : ~IsMissing(col[i])}
    IN  [i \in 1..Len(col) |->
            IF i \in valid \/ {j \in valid : j < i} = {} THEN col[i]
            ELSE LET before == {j \in valid : j < i}
                     after == {j \in valid : j > i}
                 IN  IF after = {} THEN col[Max(before)]
                     ELSE Lerp(col[Max(before)], col[Min(after)],
                               i - Max(before), Min(after) - Max(before))]

\* Series.interpolate(method='linear', limit_direction='both') on a float64
\* column: method 'linear' ignores the index and treats the rows as equally
\* spaced; NaN before the first and after the last number take that number.
InterpolateLinear(col) ==
    LET valid == {i \in 1..Len(col) : ~IsMissing(col[i])}
    IN  IF valid = {} THEN col
        ELSE [i \in 1..Len(col) |->
                IF i \in valid THEN col[i]
                ELSE LET before == {j \in valid : j < i}
                         after == {j \in valid : j > i}
                     IN  IF before = {} THEN col[Min(after)]
                         ELSE IF after = {} THEN col[Max(before)]
                         ELSE Lerp(col[Max(before)], col[Min(after)],
                                   i - Max(before), Min(after) - Max(before))]

NaiveAnglePoint(a0, a1, k, m) == ((a0 * (m - k) + a1 * k) \div m) % 360

\* One point of _interpolate_circular between the angles a0 at time 0 and a1
\* at time m, k units after a0: sin and cos interpolated separately, then
\* arctan2, rad2deg and % 360.
CircularPoint(a0, a1, k, m) ==
    LET sin_interp == SinDeg(a0) * (m - k) + SinDeg(a1) * k
        cos_interp == CosDeg(a0) * (m - k) + CosDeg(a1) * k
    IN  ArcTan2Deg(sin_interp, cos_interp) % 360

\* _interpolate_circular(timestamps, angles) past the isnan test.  np.interp
\* takes, for x, the last valid point j with time <= x: its value when x is
\* that time or j is the last point, the first value when there is no such
\* point, else the line from j to the next valid point.
InterpolateCircular(timestamps, angles) ==
    LET valid == {i \in 1..Len(angles) : ~IsMissing(angles[i])}
    IN  IF valid = {} THEN angles
        ELSE [i \in 1..Len(angles) |->
                LET x == timestamps[i]
                    le == {j \in valid : timestamps[j] <= x}
                IN  IF le = {}
                    THEN Num(CircularPoint(angles[Min(valid)].n, angles[Min(valid)].n, 0, 1), 1)
                    ELSE LET j == Max(le)
                             gt == {k \in valid : k > j}
                         IN  IF gt = {} \/ timestamps[j] = x
                             THEN Num(CircularPoint(angles[j].n, angles[j].n, 0, 1), 1)
                             ELSE Num(CircularPoint(angles[j].n, angles[Min(gt)].n,
                                          x - timestamps[j],
                                          timestamps[Min(gt)] - timestamps[j]), 1)]

----------------------------------------------------------------------------
(* TelemetrySynchronizer *)

\* What the installed pandas and numpy decide: Series.interpolate on an
\* object-dtype column returns it unchanged (pandas 1.x, 2.x) or raises
\* TypeError (pandas 3); the order of equal keys after sort_values.
Builds ==
    [object_interpolate : {"noop", "raise"}, sort_ties : {"stable", "reversed"}]

NoResult == [status |-> "none", columns |-> {}, rows |-> <<>>]
TypeError == [status |-> "TypeError", columns |-> {}, rows |-> <<>>]

\* TelemetrySynchronizer.synchronize_and_interpolate(frame_timestamps)
SynchronizeAndInterpolate(df, fts, bld) ==
    LET keys == TelemetryKeys(df) \o FrameKeys(fts)
        sorted == SortValues(keys, {keys[i].timestamp : i \in 1..Len(keys)},
                             bld.sort_ties)
        combined == MergeLeft(sorted, df)
        timestamps == [i \in 1..Len(combined) |-> combined[i].timestamp]
        values(c) == [i \in 1..Len(combined) |-> combined[i].vals[c]]
        linear == df.columns \cap SeqToSet(LinearColumns)
        circular == df.columns \cap SeqToSet(CircularColumns)
        raises ==
            \/ \E c \in linear :
                  IsObjectDtype(df, c) /\ bld.object_interpolate = "raise"
            \/ \E c \in circular : IsObjectDtype(df, c)
        interpolated ==
            [c \in df.columns |->
                IF c \in linear
                THEN IF IsObjectDtype(df, c) THEN values(c)
                     ELSE InterpolateLinear(values(c))
                ELSE IF c \in circular
                THEN InterpolateCircular(timestamps, values(c))
                ELSE values(c)]
        frames == {i \in 1..Len(combined) : ~combined[i].is_telemetry}
        pick == [k \in 1..Cardinality(frames) |->
                    CHOOSE i \in frames :
                        Cardinality({j \in frames : j <= i}) = k]
    IN  IF raises THEN TypeError
        ELSE [status |-> "ok",
              columns |-> df.columns,
              rows |-> [k \in 1..Cardinality(frames) |->
                          [timestamp |-> timestamps[pick[k]],
                           vals |-> [c \in df.columns |->
                                        interpolated[c][pick[k]]]]]]

----------------------------------------------------------------------------
(* Inputs *)

TimeStamps == 0..MaxTime

LinearValues == {NaN, Num(0, 1), Num(6, 1)}
CircularValues == {NaN, Num(350, 1), Num(0, 1), Num(180, 1), Num(-10, 1)}

\* The cells of a column: numbers and NaN, and None when the frame may hold
\* object-dtype columns
ValuesOf(c, objects) ==
    (IF c \in SeqToSet(CircularColumns) THEN CircularValues ELSE LinearValues)
        \cup (IF objects THEN {None} ELSE {})

\* The frames drawn carry at most one interpolable column.
ColumnSets ==
    {{}} \cup {{c} : c \in SeqToSet(LinearColumns) \cup SeqToSet(CircularColumns)}

RowsOf(cols, objects) ==
    {[timestamp |-> t, vals |-> v] :
        t \in TimeStamps,
        v \in {f \in [cols -> LinearValues \cup CircularValues \cup {None}] :
                  \A c \in cols : f[c] \in ValuesOf(c, objects)}}

\* At least one sample, timestamps non-decreasing
FramesOver(objects) ==
    UNION {{[columns |-> cols, rows |-> r] :
               r \in {q \in [1..n -> RowsOf(cols, objects)] :
                         \A i \in 1..(n - 1) : q[i].timestamp <= q[i + 1].timestamp}} :
           cols \in ColumnSets, n \in 1..MaxSamples}

\* Telemetry as SRTParser.parse hands it over: pd.to_numeric has made every
\* numeric column float64, so a missing value is NaN.
DataFrames == FramesOver(FALSE)

\* Telemetry as test_object_dtype_with_none_values builds it: a column may be
\* of object dtype and hold None.
ObjectDataFrames == FramesOver(TRUE)

\* Frame timestamps: non-empty and strictly increasing, as the lists of
\* calculate_frame_timestamps are.
FrameLists ==
    UNION {{f \in [1..n -> TimeStamps] : \A i \in 1..(n - 1) : f[i] < f[i + 1]} :
           n \in 1..MaxFrames}

----------------------------------------------------------------------------
(* The synchronizer as a state machine *)

\* TelemetrySynchronizer.__init__: self.telemetry_df = telemetry_df.copy()
InitSync(dfs, builds) ==
    /\ caller_df \in dfs
    /\ telemetry_df = caller_df
    /\ build \in builds
    /\ frame_timestamps = <<>>
    /\ result = NoResult
    /\ calls = 0
    /\ first_call = [frames |-> <<>>, result |-> NoResult]

ParseIdle ==
    /\ srt_file = <<>>
    /\ telemetry_data = <<>>
    /\ parse_result = NoResult
    /\ parse_calls = 0

\* No classify_flight_type call yet
NoFlight ==
    [type |-> "none", avg_pitch |-> NaN,
     yaw_variation |-> [lo |-> 0, exact |-> TRUE, nan |-> FALSE]]

ClassifyIdle ==
    /\ flight_df = [columns |-> {}, rows |-> <<>>]
    /\ flight = NoFlight

\* No calculate_frame_timestamps call yet
NoTimestamps == [status |-> "none", list |-> <<>>]

ExtractorIdle ==
    /\ num_frames = 0
    /\ frame_rate = Num(1, 1)
    /\ returned_timestamps = NoTimestamps

\* The default of validate_duration's tolerance parameter
DefaultTolerance == 2

\* No validate_duration call yet
NotValidated == [status |-> "none", value |-> FALSE]

ValidateIdle ==
    /\ srt_timestamps = <<>>
    /\ video_duration = 0
    /\ tolerance = DefaultTolerance
    /\ duration_ok = NotValidated

\* No inject_metadata and no batch_inject call yet
NotInjected == [status |-> "none", cmd |-> <<>>]
NoBatch == [status |-> "none", success_count |-> 0]

ExifIdle ==
    /\ image_paths = <<>>
    /\ telemetry_list = <<>>
    /\ progress_callback = FALSE
    /\ commands = <<>>
    /\ progress = <<>>
    /\ inject_result = NotInjected
    /\ batch_result = NoBatch

MaxRuns == 2

\* A start request that has not been made
NoRequest == [video_ok |-> FALSE, srt_ok |-> FALSE, outcome |-> "none"]

\* PhotogrammetryApp.__init__: self.processing = False, and no pipeline
\* thread
PipelineIdle ==
    /\ processing = FALSE
    /\ thread_pc = [t \in 1..MaxRuns |-> "unborn"]
    /\ events = [t \in 1..MaxRuns |-> <<>>]
    /\ started = 0
    /\ start_request = NoRequest

\* No wait_for_completion call yet
WebODMIdle ==
    /\ wait_timeout = 0
    /\ elapsed = 0
    /\ polls = <<>>
    /\ progress_calls = <<>>
    /\ wait_callback = FALSE
    /\ wait_result = "none"

AppIdle == ValidateIdle /\ ExifIdle /\ PipelineIdle /\ WebODMIdle

SynchronizeInPlace(fts) ==
    /\ frame_timestamps' = fts
    /\ result' = SynchronizeAndInterpolate(telemetry_df, fts, build)
    /\ calls' = calls + 1
    /\ first_call' = IF calls = 0
                     THEN [frames |-> fts, result |-> result']
                     ELSE first_call
    /\ telemetry_df' = [telemetry_df EXCEPT !.rows = @ \o result'.rows]
    /\ UNCHANGED <<caller_df, build>>
    /\ UNCHANGED parseVars
    /\ UNCHANGED <<classifyVars, extractorVars, appVars>>

\* One call of synchronize_and_interpolate on the synchronizer
Synchronize(fts) ==
    /\ frame_timestamps' = fts
    /\ result' = SynchronizeAndInterpolate(telemetry_df, fts, build)
    /\ calls' = calls + 1
    /\ first_call' = IF calls = 0
                     THEN [frames |-> fts, result |-> result']
                     ELSE first_call
    /\ UNCHANGED <<caller_df, telemetry_df, build>>
    /\ UNCHANGED parseVars
    /\ UNCHANGED <<classifyVars, extractorVars, appVars>>

\* On float64 frames object_interpolate is never consulted: one value of it
\* is drawn.
FloatBuilds == {b \in Builds : b.object_interpolate = "noop"}

Init ==
    InitSync(DataFrames, FloatBuilds) /\ ParseIdle /\ ClassifyIdle /\ ExtractorIdle /\ AppIdle

\* One call on a fresh synchronizer
FirstCall == calls = 0 /\ \E fts \in FrameLists : Synchronize(fts)

Next == FirstCall

Spec == Init /\ [][Next]_vars

\* A sequence of calls on one synchronizer
AnyCall == calls < MaxCalls /\ \E fts \in FrameLists : Synchronize(fts)

NextRepeat == AnyCall

SpecRepeat == Init /\ [][NextRepeat]_vars

\* One call on a synchronizer built from a frame that may hold None
InitObject ==
    InitSync(ObjectDataFrames, Builds) /\ ParseIdle /\ ClassifyIdle /\ ExtractorIdle /\ AppIdle

ObjectCall == calls = 0 /\ \E fts \in FrameLists : Synchronize(fts)

NextObject == ObjectCall

SpecObject == InitObject /\ [][NextObject]_vars

----------------------------------------------------------------------------
(* Properties of synchronize_and_interpolate *)

InterpolableColumns == SeqToSet(LinearColumns) \cup SeqToSet(CircularColumns)

Returned == result.status = "ok"
Called == result.status # "none"

TimeOf(i) == telemetry_df.rows[i].timestamp
ValueOf(i, c) == telemetry_df.rows[i].vals[c]

\* The samples that carry a number for the column
Carriers(c) ==
    IF c \in telemetry_df.columns
    THEN {i \in 1..Len(telemetry_df.rows) : ~IsMissing(ValueOf(i, c))}
    ELSE {}

DistinctTimes ==
    \A i, j \in 1..Len(telemetry_df.rows) : i # j => TimeOf(i) # TimeOf(j)

BeforeRow(c, r) == {i \in Carriers(c) : TimeOf(i) < r.timestamp}
AfterRow(c, r) == {i \in Carriers(c) : TimeOf(i) > r.timestamp}
AtRow(c, r) == {i \in Carriers(c) : TimeOf(i) = r.timestamp}

\* The frame row lies strictly between two neighbouring carriers of c
Between(c, r) == BeforeRow(c, r) # {} /\ AfterRow(c, r) # {} /\ AtRow(c, r) = {}

TimeWeighted(c, r) ==
    LET i0 == Max(BeforeRow(c, r))
        i1 == Min(AfterRow(c, r))
    IN  Lerp(ValueOf(i0, c), ValueOf(i1, c),
             r.timestamp - TimeOf(i0), TimeOf(i1) - TimeOf(i0))

ResultRows == {result.rows[k] : k \in 1..Len(result.rows)}

\* C1: a linear field of a frame row strictly between
\* two neighbouring carriers (t0, v0), (t1, v1) is
\* v0 + (v1 - v0) * (t - t0) / (t1 - t0).
C1_TimeWeightedLinear ==
    Returned =>
        \A c \in result.columns \cap SeqToSet(LinearColumns) :
            \A r \in ResultRows :
                Between(c, r) => r.vals[c] = TimeWeighted(c, r)

\* C2: every call returns exactly len(frame_timestamps) rows.
C2_OneRowPerFrame ==
    Called => Returned /\ Len(result.rows) = Len(frame_timestamps)

\* The signed short-way difference from a0 to a1, in -180..179
ShortWay(a0, a1) == ((a1 - a0 + 180) % 360) - 180

OnShortArc(o, a0, a1) ==
    LET delta == ShortWay(a0, a1)
    IN  IF delta >= 0 THEN (o - a0) % 360 <= delta
        ELSE (a0 - o) % 360 <= -delta

\* C3: a circular field of a frame row strictly between two neighbouring
\* carriers whose angles differ by less than 180 degrees lies on the
\* shorter arc between the two angles.
C3_CircularOnShorterArc ==
    Returned =>
        \A c \in result.columns \cap SeqToSet(CircularColumns) :
            \A r \in ResultRows :
                Between(c, r) =>
                    LET a0 == ValueOf(Max(BeforeRow(c, r)), c).n
                        a1 == ValueOf(Min(AfterRow(c, r)), c).n
                    IN  ShortWay(a0, a1) # -180 =>
                            /\ r.vals[c].kind = "num"
                            /\ r.vals[c].d = 1
                            /\ OnShortArc(r.vals[c].n, a0, a1)

\* A frame halfway between 350 and 0 degrees came out at 355 degrees
C3_Witness ==
    /\ Returned
    /\ \E c \in result.columns \cap SeqToSet(CircularColumns) :
          \E r \in ResultRows :
              /\ Between(c, r)
              /\ ValueOf(Max(BeforeRow(c, r)), c) = Num(350, 1)
              /\ ValueOf(Min(AfterRow(c, r)), c) = Num(0, 1)
              /\ r.timestamp - TimeOf(Max(BeforeRow(c, r)))
                    = TimeOf(Min(AfterRow(c, r))) - r.timestamp
              /\ r.vals[c] = Num(355, 1)

\* C4: a linear field of a frame row earlier than the first carrier (later
\* than the last carrier) equals the value of that carrier.
C4_ClampedAtBothEnds ==
    Returned =>
        \A c \in result.columns \cap SeqToSet(LinearColumns) :
            \A r \in ResultRows :
                Carriers(c) # {} =>
                    /\ r.timestamp < TimeOf(Min(Carriers(c)))
                          => r.vals[c] = ValueOf(Min(Carriers(c)), c)
                    /\ r.timestamp > TimeOf(Max(Carriers(c)))
                          => r.vals[c] = ValueOf(Max(Carriers(c)), c)

\* Frames before the first and after the last of two carriers came back
\* with the values of the first and of the last
C4_Witness ==
    /\ Returned
    /\ Len(result.rows) = 2
    /\ \E c \in result.columns \cap SeqToSet(LinearColumns) :
          /\ Cardinality(Carriers(c)) = 2
          /\ ValueOf(1, c) # ValueOf(2, c)
          /\ result.rows[1].timestamp < TimeOf(1)
          /\ result.rows[2].timestamp > TimeOf(2)
          /\ result.rows[1].vals[c] = ValueOf(1, c)
          /\ result.rows[2].vals[c] = ValueOf(2, c)

\* C5, as claimed: an interpolable field that at least one sample carries is
\* not missing in any frame row; with one sample every frame row has the
\* sample's value for each field the sample carries.
C5_PopulatedWithSampleValue ==
    Returned =>
        \A c \in InterpolableColumns :
            Carriers(c) # {} =>
                \A r \in ResultRows :
                    /\ c \in result.columns
                    /\ ~IsMissing(r.vals[c])
                    /\ Len(telemetry_df.rows) = 1 => r.vals[c] = ValueOf(1, c)

\* The angle as _interpolate_circular returns it: in [0, 360)
Normalised(v) == Num(v.n % 360, 1)

\* C5, amended: an interpolable field that at least one sample carries is
\* not missing in any frame row; with one sample every frame row has the
\* sample's value for each linear field and the sample's angle normalised
\* into [0, 360) for each circular field the sample carries.
C5_PopulatedWhenCarried ==
    Returned =>
        \A c \in InterpolableColumns :
            Carriers(c) # {} =>
                \A r \in ResultRows :
                    /\ c \in result.columns
                    /\ ~IsMissing(r.vals[c])
                    /\ Len(telemetry_df.rows) = 1 =>
                          r.vals[c] = IF c \in SeqToSet(CircularColumns)
                                      THEN Normalised(ValueOf(1, c))
                                      ELSE ValueOf(1, c)

\* One sample with a circular field of -10 degrees, and the rows of two
\* frames have 350 degrees
C5_Witness ==
    /\ Returned
    /\ Len(result.rows) = 2
    /\ Len(telemetry_df.rows) = 1
    /\ \E c \in result.columns \cap SeqToSet(CircularColumns) :
          /\ ValueOf(1, c) = Num(-10, 1)
          /\ \A r \in ResultRows : r.vals[c] = Num(350, 1)

\* Of two samples only the second carries a linear field, and the rows of
\* two frames, one of them at the time of the first sample, have its value
C5_WitnessTwoSamples ==
    /\ Returned
    /\ Len(result.rows) = 2
    /\ Len(telemetry_df.rows) = 2
    /\ \E c \in result.columns \cap SeqToSet(LinearColumns) :
          /\ Carriers(c) = {2}
          /\ \E r \in ResultRows : r.timestamp = TimeOf(1)
          /\ \A r \in ResultRows : r.vals[c] = ValueOf(2, c)

\* C6: an interpolable field that no sample carries (column absent, or
\* missing in every sample) is missing in every frame row.
C6_MissingStaysMissing ==
    Returned =>
        \A c \in InterpolableColumns :
            Carriers(c) = {} =>
                \A r \in ResultRows :
                    c \in result.columns => IsMissing(r.vals[c])

\* A column that is NaN in every sample came back, still missing, in the
\* rows of two frames
C6_Witness ==
    /\ Returned
    /\ Len(result.rows) = 2
    /\ \E c \in result.columns :
          /\ Carriers(c) = {}
          /\ \A i \in 1..Len(telemetry_df.rows) : ValueOf(i, c) = NaN
          /\ \A r \in ResultRows : IsMissing(r.vals[c])

\* The frame with every None written as NaN
AsNaN(df) ==
    [df EXCEPT !.rows =
        [i \in 1..Len(df.rows) |->
            [df.rows[i] EXCEPT !.vals =
                [c \in df.columns |->
                    IF df.rows[i].vals[c].kind = "none" THEN NaN
                    ELSE df.rows[i].vals[c]]]]]

\* C7: a call does not raise, and returns what it returns for the same
\* samples with every missing value written as NaN.
C7_MissingRepresentationsAlike ==
    Called =>
        /\ Returned
        /\ result = SynchronizeAndInterpolate(AsNaN(telemetry_df),
                                              frame_timestamps, build)

\* C8: with pairwise distinct sample timestamps the result has one row per
\* frame timestamp, the i-th row carrying frame_timestamps[i].
C8_FrameRowsInFrameOrder ==
    (Returned /\ DistinctTimes) =>
        /\ Len(result.rows) = Len(frame_timestamps)
        /\ \A i \in 1..Len(result.rows) :
              result.rows[i].timestamp = frame_timestamps[i]

\* Two frames, the first at the time of a sample, the second at no sample's
\* time, came back as two rows in that order
C8_Witness ==
    /\ Returned
    /\ DistinctTimes
    /\ Len(telemetry_df.rows) = 2
    /\ Len(frame_timestamps) = 2
    /\ frame_timestamps[1] = TimeOf(2)
    /\ \A i \in 1..2 : TimeOf(i) # frame_timestamps[2]
    /\ Len(result.rows) = 2
    /\ result.rows[1].timestamp = frame_timestamps[1]

----------------------------------------------------------------------------
(* SRTParser: the log *)

\* A time of day as written, 'HH:MM:SS,mmm'; ok is FALSE for text that
\* the pattern (\d{2}):(\d{2}):(\d{2})[,.](\d{3}) does not match.
TimeText(h, m, sec, ms) == [ok |-> TRUE, h |-> h, m |-> m, s |-> sec, ms |-> ms]
NoTime == [ok |-> FALSE, h |-> 0, m |-> 0, s |-> 0, ms |-> 0]

\* The text of a value: a decimal n/d such as -34.5, a fraction 'a/b' of two
\* unsigned whole numbers, the text '1/2/3' with two slashes, or a word
\* without a digit at its start (n/a).
Decimal(n, d) == [form |-> "decimal", a |-> n, b |-> d]
Fraction(a, b) == [form |-> "fraction", a |-> a, b |-> b]
Word == [form |-> "word", a |-> 0, b |-> 1]
Malformed == [form |-> "malformed", a |-> 1, b |-> 1]

\* A line: the text before '-->' (start), the text after it (end), and the
\* 'key: value' tokens it holds, each key a sequence of characters.
Line(start, end, tokens) == [start |-> start, end |-> end, tokens |-> tokens]
IndexLine == Line(NoTime, NoTime, <<>>)
TextLine(tokens) == Line(NoTime, NoTime, tokens)
Token(key, text) == [key |-> key, text |-> text]

K_latitude == <<"l", "a", "t", "i", "t", "u", "d", "e">>
K_lat == <<"l", "a", "t">>
K_longitude == <<"l", "o", "n", "g", "i", "t", "u", "d", "e">>
K_lon == <<"l", "o", "n">>
K_altitude == <<"a", "l", "t", "i", "t", "u", "d", "e">>
K_alt == <<"a", "l", "t">>
K_rel_alt == <<"r", "e", "l", "_", "a", "l", "t">>
K_gimbal_pitch == <<"g", "i", "m", "b", "a", "l", "_", "p", "i", "t", "c", "h">>
K_gimbalpitch == <<"g", "i", "m", "b", "a", "l", "p", "i", "t", "c", "h">>
K_gimbal_yaw == <<"g", "i", "m", "b", "a", "l", "_", "y", "a", "w">>
K_gimbalyaw == <<"g", "i", "m", "b", "a", "l", "y", "a", "w">>
K_GimbalYaw == <<"G", "i", "m", "b", "a", "l", "Y", "a", "w">>
K_gimbal_ == <<"g", "i", "m", "b", "a", "l", "_">>
K_gimbal == <<"g", "i", "m", "b", "a", "l">>
K_yaw == <<"y", "a", "w">>
K_iso == <<"i", "s", "o">>
K_shutter == <<"s", "h", "u", "t", "t", "e", "r">>

\* re.IGNORECASE
LowerChar(ch) ==
    CASE ch = "G" -> "g" [] ch = "Y" -> "y" [] ch = "P" -> "p"
      [] ch = "L" -> "l" [] ch = "A" -> "a" [] ch = "I" -> "i"
      [] ch = "S" -> "s" [] ch = "M" -> "m" [] ch = "B" -> "b"
      [] ch = "W" -> "w" [] OTHER -> ch

Lower(w) == [i \in 1..Len(w) |-> LowerChar(w[i])]

EndsWith(w, suffix) ==
    /\ Len(w) >= Len(suffix)
    /\ SubSeq(Lower(w), Len(w) - Len(suffix) + 1, Len(w)) = suffix

----------------------------------------------------------------------------
(* SRTParser *)

ParserFields ==
    <<"latitude", "longitude", "altitude", "rel_altitude", "gimbal_pitch",
      "gimbal_yaw", "yaw", "iso", "shutter">>

\* The patterns with the two lookbehinds of the yaw pattern left out
KeyMatchesNoLookbehind(field, key) ==
    CASE field = "latitude" -> EndsWith(key, K_latitude) \/ EndsWith(key, K_lat)
      [] field = "longitude" -> EndsWith(key, K_longitude) \/ EndsWith(key, K_lon)
      [] field = "altitude" -> EndsWith(key, K_altitude) \/ EndsWith(key, K_alt)
      [] field = "rel_altitude" -> EndsWith(key, K_rel_alt)
      [] field = "gimbal_pitch" ->
            EndsWith(key, K_gimbal_pitch) \/ EndsWith(key, K_gimbalpitch)
      [] field = "gimbal_yaw" ->
            EndsWith(key, K_gimbal_yaw) \/ EndsWith(key, K_gimbalyaw)
      [] field = "yaw" -> EndsWith(key, K_yaw)
      [] field = "iso" -> EndsWith(key, K_iso)
      [] OTHER -> EndsWith(key, K_shutter)

\* The key part of the pattern of a field in _parse_block, matched by
\* re.search anywhere in the text, so at the end of a longer key too.
KeyMatches(field, key) ==
    CASE field = "latitude" -> EndsWith(key, K_latitude) \/ EndsWith(key, K_lat)
      [] field = "longitude" -> EndsWith(key, K_longitude) \/ EndsWith(key, K_lon)
      [] field = "altitude" -> EndsWith(key, K_altitude) \/ EndsWith(key, K_alt)
      [] field = "rel_altitude" -> EndsWith(key, K_rel_alt)
      [] field = "gimbal_pitch" ->
            EndsWith(key, K_gimbal_pitch) \/ EndsWith(key, K_gimbalpitch)
      [] field = "gimbal_yaw" ->
            EndsWith(key, K_gimbal_yaw) \/ EndsWith(key, K_gimbalyaw)
      [] field = "yaw" ->
            /\ EndsWith(key, K_yaw)
            /\ ~EndsWith(key, K_gimbal_ \o K_yaw)
            /\ ~EndsWith(key, K_gimbal \o K_yaw)
      [] field = "iso" -> EndsWith(key, K_iso)
      [] OTHER -> EndsWith(key, K_shutter)

\* The value part of the pattern: (-?\d+\.?\d*), for iso (\d+), for shutter
\* ([0-9/.]+).  "none" when the pattern does not match the text, else the
\* captured text.
Captured(field, text) ==
    IF text.form = "word" THEN [kind |-> "none", a |-> 0, b |-> 1]
    ELSE IF field = "iso"
    THEN IF text.a < 0 THEN [kind |-> "none", a |-> 0, b |-> 1]
         ELSE IF text.form \in {"fraction", "malformed"}
         THEN [kind |-> "number", a |-> text.a, b |-> 1]
         ELSE [kind |-> "number", a |-> text.a \div text.b, b |-> 1]
    ELSE IF field = "shutter"
    THEN IF text.a < 0 THEN [kind |-> "none", a |-> 0, b |-> 1]
         ELSE [kind |-> IF text.form \in {"fraction", "malformed"}
                        THEN text.form ELSE "number",
               a |-> text.a, b |-> text.b]
    ELSE IF text.form \in {"fraction", "malformed"}
    THEN [kind |-> "number", a |-> text.a, b |-> 1]
    ELSE [kind |-> "number", a |-> text.a, b |-> text.b]

ZeroDivision == [kind |-> "ZeroDivisionError", n |-> 0, d |-> 1]

\* SRTParser._extract_value: the leftmost match of the pattern; a fraction
\* is float(num) / float(denom), and a zero denominator raises
\* ZeroDivisionError, which 'except ValueError' does not catch; a text with
\* two slashes does not unpack into 'num, denom', a ValueError, caught.
ExtractValue(tokens, field) ==
    LET hits == {i \in 1..Len(tokens) :
                    /\ KeyMatches(field, tokens[i].key)
                    /\ Captured(field, tokens[i].text).kind # "none"}
    IN  IF hits = {} THEN None
        ELSE LET c == Captured(field, tokens[Min(hits)].text)
             IN  IF c.kind = "malformed" THEN None
                 ELSE IF c.kind = "fraction" /\ c.b = 0 THEN ZeroDivision
                 ELSE Num(c.a, c.b)

\* The time after '-->' instead of the time before it
ParseTimestampFromEnd(line) ==
    IF line.end.ok
    THEN Num((line.end.h * 3600 + line.end.m * 60 + line.end.s) * 1000
                 + line.end.ms, 1000)
    ELSE None

\* SRTParser._parse_timestamp: the start time, in seconds
ParseTimestamp(line) ==
    IF line.start.ok
    THEN Num((line.start.h * 3600 + line.start.m * 60 + line.start.s) * 1000
                 + line.start.ms, 1000)
    ELSE None

\* SRTParser._parse_block: "none", a sample, or the exception of
\* _extract_value
ParseBlock(block) ==
    IF Len(block) < 3 THEN [kind |-> "none"]
    ELSE IF ParseTimestamp(block[2]).kind = "none" THEN [kind |-> "none"]
    ELSE LET telemetry_text ==
                 Flatten([i \in 1..(Len(block) - 2) |-> block[i + 2].tokens])
             values == [f \in SeqToSet(ParserFields) |->
                           ExtractValue(telemetry_text, f)]
         IN  IF \E f \in SeqToSet(ParserFields) : values[f] = ZeroDivision
             THEN [kind |-> "ZeroDivisionError"]
             ELSE [kind |-> "sample",
                   timestamp |-> ParseTimestamp(block[2]),
                   vals |-> values]

\* content.strip().split('\n\n'): the empty log is one block of one empty line
Blocks(content) == IF content = <<>> THEN <<<<IndexLine>>>> ELSE content

\* pd.DataFrame(self.telemetry_data) and pd.to_numeric(errors='coerce'):
\* every None becomes NaN
ToDataFrame(data) ==
    [status |-> "ok",
     columns |-> SeqToSet(ParserFields),
     rows |-> [i \in 1..Len(data) |->
                  [timestamp |-> data[i].timestamp,
                   vals |-> [f \in SeqToSet(ParserFields) |->
                                IF data[i].vals[f].kind = "none" THEN NaN
                                ELSE data[i].vals[f]]]]]

ValueError == [status |-> "ValueError", columns |-> {}, rows |-> <<>>]
ZeroDivisionError == [status |-> "ZeroDivisionError", columns |-> {}, rows |-> <<>>]

----------------------------------------------------------------------------
(* The parser as a state machine *)

MaxBlocks == 2
MaxParseCalls == 2

StartTimes ==
    {TimeText(0, 0, 0, 0), TimeText(0, 0, 1, 0), TimeText(0, 1, 1, 500), NoTime}

\* 'start --> end' with the end two seconds in
TimeLines == {Line(st, TimeText(0, 0, 2, 0), <<>>) : st \in StartTimes}

Texts ==
    {<<>>,
     <<Token(K_latitude, Decimal(-345, 10))>>,
     <<Token(K_rel_alt, Decimal(50, 1)), Token(K_altitude, Decimal(150, 1))>>,
     <<Token(K_GimbalYaw, Decimal(10, 1))>>,
     <<Token(K_yaw, Word), Token(K_shutter, Fraction(1, 60))>>,
     <<Token(K_iso, Decimal(100, 1)), Token(K_shutter, Fraction(1, 0))>>,
     <<Token(K_iso, Decimal(200, 1)), Token(K_shutter, Malformed)>>}

\* Blocks of one line, of two lines, and of an index line, a time line and
\* a text line
BlockTexts ==
    {<<IndexLine>>}
        \cup {<<IndexLine, tl>> : tl \in TimeLines}
        \cup {<<IndexLine, tl, TextLine(tx)>> : tl \in TimeLines, tx \in Texts}

Logs == UNION {[1..n -> BlockTexts] : n \in 0..MaxBlocks}

EmptyFrame == [columns |-> {}, rows |-> <<>>]

SyncIdle ==
    /\ caller_df = EmptyFrame
    /\ telemetry_df = EmptyFrame
    /\ build = [object_interpolate |-> "noop", sort_ties |-> "stable"]
    /\ frame_timestamps = <<>>
    /\ result = NoResult
    /\ calls = 0
    /\ first_call = [frames |-> <<>>, result |-> NoResult]

\* SRTParser.__init__: self.telemetry_data = []
InitParse ==
    /\ srt_file \in Logs
    /\ telemetry_data = <<>>
    /\ parse_result = NoResult
    /\ parse_calls = 0
    /\ SyncIdle
    /\ ClassifyIdle
    /\ ExtractorIdle /\ AppIdle

\* The samples the loop of parse appends before it ends or a block raises
RECURSIVE Appended(_)
Appended(blocks) ==
    IF blocks = <<>> THEN <<>>
    ELSE LET t == ParseBlock(Head(blocks))
         IN  IF t.kind = "ZeroDivisionError" THEN <<>>
             ELSE IF t.kind = "none" THEN Appended(Tail(blocks))
             ELSE <<[timestamp |-> t.timestamp, vals |-> t.vals]>>
                      \o Appended(Tail(blocks))

ParseNoCheck ==
    /\ parse_calls < MaxParseCalls
    /\ telemetry_data' = telemetry_data \o Appended(Blocks(srt_file))
    /\ parse_result' = ToDataFrame(telemetry_data')
    /\ parse_calls' = parse_calls + 1
    /\ UNCHANGED srt_file
    /\ UNCHANGED syncVars
    /\ UNCHANGED <<classifyVars, extractorVars, appVars>>

\* SRTParser.parse()
Parse ==
    /\ parse_calls < MaxParseCalls
    /\ telemetry_data' = telemetry_data \o Appended(Blocks(srt_file))
    /\ parse_result' =
          IF \E i \in 1..Len(Blocks(srt_file)) :
                ParseBlock(Blocks(srt_file)[i]).kind = "ZeroDivisionError"
          THEN ZeroDivisionError
          ELSE IF telemetry_data' = <<>> THEN ValueError
          ELSE ToDataFrame(telemetry_data')
    /\ parse_calls' = parse_calls + 1
    /\ UNCHANGED srt_file
    /\ UNCHANGED syncVars
    /\ UNCHANGED <<classifyVars, extractorVars, appVars>>

NextParse == Parse

SpecParse == InitParse /\ [][NextParse]_vars

----------------------------------------------------------------------------
(* The parser on logs of one block *)

MaxTokens == 2

K_Lon == <<"L", "o", "n">>
K_GIMBAL_YAW == <<"G", "I", "M", "B", "A", "L", "_", "Y", "A", "W">>
K_YAW == <<"Y", "A", "W">>

\* One token for each key spelling, every one with a value of its own
TokenPool ==
    {Token(K_latitude, Decimal(-345, 10)),
     Token(K_Lon, Decimal(11825, 100)),
     Token(K_altitude, Decimal(150, 1)),
     Token(K_rel_alt, Decimal(50, 1)),
     Token(K_gimbal_pitch, Decimal(-90, 1)),
     Token(K_GimbalYaw, Decimal(10, 1)),
     Token(K_gimbal_yaw, Decimal(20, 1)),
     Token(K_GIMBAL_YAW, Decimal(30, 1)),
     Token(K_yaw, Decimal(45, 1)),
     Token(K_YAW, Decimal(60, 1)),
     Token(K_iso, Decimal(100, 1)),
     Token(K_shutter, Fraction(1, 60))}

\* The tokens of a text line, in every order
TokenLines ==
    UNION {{tx \in [1..n -> TokenPool] :
               \A i, j \in 1..n : i # j => tx[i] # tx[j]} : n \in 0..MaxTokens}

\* 'start --> end' lines whose two times differ, the start with hours,
\* minutes, seconds and milliseconds, or malformed
RangeLines ==
    {Line(TimeText(0, 0, 0, 0), TimeText(0, 0, 1, 0), <<>>),
     Line(TimeText(1, 2, 3, 250), TimeText(1, 2, 4, 250), <<>>),
     Line(NoTime, TimeText(0, 0, 2, 0), <<>>)}

BlockLogs ==
    {<<<<IndexLine, rl, TextLine(tx)>>>> : rl \in RangeLines, tx \in TokenLines}

InitBlock ==
    /\ srt_file \in BlockLogs
    /\ telemetry_data = <<>>
    /\ parse_result = NoResult
    /\ parse_calls = 0
    /\ SyncIdle
    /\ ClassifyIdle
    /\ ExtractorIdle /\ AppIdle

SpecBlock == InitBlock /\ [][NextParse]_vars

----------------------------------------------------------------------------
(* Properties of parse *)

\* The block has an index line, a time line and text, and the text before
\* '-->' on its second line is a time
HasParseableTime(block) == Len(block) >= 3 /\ block[2].start.ok

C10_WitnessAccepted ==
    /\ parse_calls = 1
    /\ Len(srt_file) = 2
    /\ ~HasParseableTime(srt_file[1])
    /\ HasParseableTime(srt_file[2])
    /\ parse_result.status = "ok"
    /\ Len(parse_result.rows) = 1

\* H*3600 + M*60 + S + ms/1000 of a written time
SecondsOf(t) == Num((t.h * 3600 + t.m * 60 + t.s) * 1000 + t.ms, 1000)

\* The block has a time-range line whose start is a time
HasTimeRange(block) == Len(block) >= 2 /\ block[2].start.ok

\* C11: the samples parse returns are the blocks of the log that have a
\* parseable time-range line, one sample for each, in the order of the log.
C11_SamplesAreTimedBlocks ==
    parse_calls >= 1 =>
        LET timed == SelectSeq(srt_file, HasTimeRange)
        IN  /\ Len(parse_result.rows) = Len(timed)
            /\ \A i \in 1..Len(timed) :
                  parse_result.rows[i].timestamp = SecondsOf(timed[i][2].start)

\* The only block of a one-block log, and the tokens of its text
TheBlock == srt_file[1]
TheTokens == TheBlock[3].tokens

\* C12: the timestamp of a sample is H*3600 + M*60 + S + ms/1000 of the
\* start of the block's time range, and a block whose start is not a time
\* gives no sample, whatever its end time is.
C12_TimestampFromStart ==
    parse_calls >= 1 =>
        IF TheBlock[2].start.ok
        THEN /\ parse_result.status = "ok"
             /\ \A k \in 1..Len(parse_result.rows) :
                   parse_result.rows[k].timestamp = SecondsOf(TheBlock[2].start)
        ELSE parse_result.rows = <<>>

\* The block '01:02:03,250 --> 01:02:04,250' was parsed to a sample at
\* 3723.25 s
C12_Witness ==
    /\ parse_calls = 1
    /\ TheBlock[2].start = TimeText(1, 2, 3, 250)
    /\ TheBlock[2].end # TheBlock[2].start
    /\ Len(parse_result.rows) = 1
    /\ parse_result.rows[1].timestamp = Num(3723250, 1000)

\* The keys that name a field, in lower case
OwnKeys(field) ==
    CASE field = "latitude" -> {K_latitude, K_lat}
      [] field = "longitude" -> {K_longitude, K_lon}
      [] field = "altitude" -> {K_altitude, K_alt}
      [] field = "rel_altitude" -> {K_rel_alt}
      [] field = "gimbal_pitch" -> {K_gimbal_pitch, K_gimbalpitch}
      [] field = "gimbal_yaw" -> {K_gimbal_yaw, K_gimbalyaw}
      [] field = "yaw" -> {K_yaw}
      [] field = "iso" -> {K_iso}
      [] OTHER -> {K_shutter}

\* The number written for the first token whose whole key names the field,
\* missing when no token has such a key
Written(tokens, field) ==
    LET own == {i \in 1..Len(tokens) : Lower(tokens[i].key) \in OwnKeys(field)}
    IN  IF own = {} THEN NaN
        ELSE Num(tokens[Min(own)].text.a, tokens[Min(own)].text.b)

\* C13: yaw is read from a yaw key only, never from a gimbal-yaw key, and
\* gimbal_yaw from a gimbal-yaw key, in every order of the tokens.
C13_YawNotFromGimbalYaw ==
    parse_calls >= 1 /\ parse_result.status = "ok" =>
        \A k \in 1..Len(parse_result.rows) :
            /\ parse_result.rows[k].vals["yaw"] = Written(TheTokens, "yaw")
            /\ parse_result.rows[k].vals["gimbal_yaw"] =
                  Written(TheTokens, "gimbal_yaw")

\* A block whose only token is 'GimbalYaw: 10' gave yaw missing and
\* gimbal_yaw 10
C13_Witness ==
    /\ parse_calls = 1
    /\ TheTokens = <<Token(K_GimbalYaw, Decimal(10, 1))>>
    /\ Len(parse_result.rows) = 1
    /\ parse_result.rows[1].vals["yaw"] = NaN
    /\ parse_result.rows[1].vals["gimbal_yaw"] = Num(10, 1)

\* A block with 'gimbal_yaw: 20' before 'yaw: 45' gave each field the value
\* of its own key
C13_WitnessBoth ==
    /\ parse_calls = 1
    /\ TheTokens = <<Token(K_gimbal_yaw, Decimal(20, 1)),
                     Token(K_yaw, Decimal(45, 1))>>
    /\ Len(parse_result.rows) = 1
    /\ parse_result.rows[1].vals["yaw"] = Num(45, 1)
    /\ parse_result.rows[1].vals["gimbal_yaw"] = Num(20, 1)

\* A block with 'YAW: 60' before 'GIMBAL_YAW: 30' gave each field the value
\* of its own key
C13_WitnessUpperCase ==
    /\ parse_calls = 1
    /\ TheTokens = <<Token(K_YAW, Decimal(60, 1)),
                     Token(K_GIMBAL_YAW, Decimal(30, 1))>>
    /\ Len(parse_result.rows) = 1
    /\ parse_result.rows[1].vals["yaw"] = Num(60, 1)
    /\ parse_result.rows[1].vals["gimbal_yaw"] = Num(30, 1)

\* C14: every field of a sample has the value written for its own key, and
\* is missing when the block has no such key, in every order of the tokens.
C14_EachFieldFromOwnKey ==
    parse_calls >= 1 /\ parse_result.status = "ok" =>
        \A k \in 1..Len(parse_result.rows) :
            \A f \in SeqToSet(ParserFields) :
                parse_result.rows[k].vals[f] = Written(TheTokens, f)

\* C15: the timestamps of the returned samples are non-negative and
\* non-decreasing.
C15_TimestampsNonDecreasing ==
    parse_calls >= 1 =>
        /\ \A k \in 1..Len(parse_result.rows) :
              parse_result.rows[k].timestamp.n >= 0
        /\ \A k \in 1..(Len(parse_result.rows) - 1) :
              parse_result.rows[k].timestamp.n * parse_result.rows[k + 1].timestamp.d
                 <= parse_result.rows[k + 1].timestamp.n * parse_result.rows[k].timestamp.d

\* C16: a later call of parse on the same parser returns what the call
\* before it returned.
C16_ParseIsPure ==
    [][parse_calls >= 1 => parse_result' = parse_result]_vars

----------------------------------------------------------------------------
(* TelemetrySynchronizer.classify_flight_type *)

MaxFlightRows == 3

\* The values of a column that are not NaN: Series.dropna()
DropNa(df, col) ==
    LET present == SelectSeq(df.rows, LAMBDA r : ~IsMissing(r.vals[col]))
    IN  [i \in 1..Len(present) |-> present[i].vals[col]]

AddNum(a, b) == Num(a.n * b.d + b.n * a.d, a.d * b.d)

RECURSIVE SumNum(_)
SumNum(values) ==
    IF values = <<>> THEN Num(0, 1) ELSE AddNum(Head(values), SumNum(Tail(values)))

\* Series.mean(): the mean of the values that are not NaN, NaN without one
Mean(df, col) ==
    LET values == DropNa(df, col)
    IN  IF values = <<>> THEN NaN
        ELSE Num(SumNum(values).n, SumNum(values).d * Len(values))

\* A number of degrees known by the multiple of ten below it: lo <= v, and
\* v < lo + 10 unless lo is 180; exact when v = lo.  NaNDegrees is the
\* float nan.
Degrees(lo, exact) == [lo |-> lo, exact |-> exact, nan |-> FALSE]
NaNDegrees == [lo |-> 0, exact |-> FALSE, nan |-> TRUE]

\* round(10^8 * exp(-(d*pi/180)^2)) for d = 0, 10, .., 180: the R^2 at
\* which rad2deg(sqrt(-2 * log(R))) is d
DispersionTable ==
    <<100000000, 96999754, 88528383, 76021372, 61422874, 46694512, 33399719,
      22478175, 14233790, 8480497, 4754046, 2507533, 1244432, 581082, 255296,
      105534, 41047, 15021, 5172>>

RECURSIVE SumInt(_)
SumInt(values) == IF values = <<>> THEN 0 ELSE Head(values) + SumInt(Tail(values))

\* The circular standard deviation of the yaw values, which are whole
\* degrees: C and S are the sums of 10000*cos and 10000*sin, r2 is
\* (10000 * n * R)^2
CircularDeviation(yaw_values) ==
    LET n == Len(yaw_values)
        C == SumInt([i \in 1..n |-> CosDeg(yaw_values[i].n)])
        S == SumInt([i \in 1..n |-> SinDeg(yaw_values[i].n)])
        r2 == C * C + S * S
        below == {k \in 0..18 : r2 <= DispersionTable[k + 1] * n * n}
    IN  IF r2 > 0
        THEN IF below = {} THEN Degrees(0, FALSE)
             ELSE Degrees(10 * Max(below),
                          r2 = DispersionTable[Max(below) + 1] * n * n)
        ELSE Degrees(180, TRUE)

\* The yaw values whose mean resultant length R is 1 and is computed with
\* rounding: three or more equal values whose sine and cosine are not
\* whole numbers.  np.mean rounds the sums and the quotients, so the float
\* R is 1.0 or a float next to it.
RoundedNearOne(yaw_values) ==
    /\ Len(yaw_values) >= 3
    /\ \A i \in 1..Len(yaw_values) : yaw_values[i] = yaw_values[1]
    /\ yaw_values[1].n % 90 # 0

\* np.rad2deg(np.sqrt(-2 * np.log(R))) if R > 0 else 180, on floats: when
\* R is rounded above 1, log(R) > 0 and the square root of the negative
\* number is nan
FloatDeviation(yaw_values, above) ==
    IF above /\ RoundedNearOne(yaw_values) THEN NaNDegrees
    ELSE CircularDeviation(yaw_values)

\* avg_pitch of classify_flight_type
AvgPitch(df) ==
    IF "gimbal_pitch" \in df.columns THEN Mean(df, "gimbal_pitch") ELSE Num(0, 1)

\* yaw_variation of classify_flight_type
YawVariation(df, above) ==
    IF "yaw" \in df.columns /\ DropNa(df, "yaw") # <<>>
    THEN FloatDeviation(DropNa(df, "yaw"), above)
    ELSE Degrees(0, TRUE)

\* Comparisons of a float that may be NaN, and of a number of degrees, with
\* a whole number
Less(v, k) == v.kind = "num" /\ v.n < k * v.d
More(v, k) == v.kind = "num" /\ v.n > k * v.d
DegLess(v, k) == ~v.nan /\ v.lo < k
DegMore(v, k) == ~v.nan /\ (v.lo > k \/ (v.lo = k /\ ~v.exact))

IsNadir(avg_pitch, yaw_variation) ==
    Less(avg_pitch, -80) /\ DegLess(yaw_variation, 30)

IsOrbit(avg_pitch, yaw_variation) ==
    More(avg_pitch, -60) /\ Less(avg_pitch, -30) /\ DegMore(yaw_variation, 30)

\* classify_flight_type; above tells how the build rounds an R next to 1
ClassifyFlightType(df, above) ==
    IF df.rows = <<>> THEN [NoFlight EXCEPT !.type = "Unknown"]
    ELSE [type |-> IF IsNadir(AvgPitch(df), YawVariation(df, above))
                   THEN "Nadir Mapping"
                   ELSE IF IsOrbit(AvgPitch(df), YawVariation(df, above))
                   THEN "Orbit/Structure"
                   ELSE "Mixed/Other",
          avg_pitch |-> AvgPitch(df),
          yaw_variation |-> YawVariation(df, above)]

----------------------------------------------------------------------------
(* classify_flight_type as a state machine *)

PitchValues == {NaN, Num(-90, 1), Num(-80, 1), Num(-60, 1), Num(-45, 1), Num(-30, 1)}
YawValues == {NaN, Num(0, 1), Num(8, 1), Num(90, 1), Num(180, 1)}

FlightRowValues(cols) ==
    {[c \in cols |-> IF c = "yaw" THEN y ELSE p] :
        p \in PitchValues, y \in YawValues}

\* A frame of the columns cols with the rows of values vs
FlightFrame(cols, vs) ==
    [columns |-> cols,
     rows |-> [i \in 1..Len(vs) |-> [timestamp |-> Num(i - 1, 1), vals |-> vs[i]]]]

\* The frame that is classified, of up to MaxFlightRows rows, with or
\* without a gimbal_pitch and a yaw column, and no call yet
InitClassify ==
    /\ \E cols \in SUBSET {"gimbal_pitch", "yaw"} :
          \E n \in 0..MaxFlightRows :
             \E vs \in [1..n -> FlightRowValues(cols)] :
                flight_df = FlightFrame(cols, vs)
    /\ flight = NoFlight
    /\ SyncIdle
    /\ ParseIdle
    /\ ExtractorIdle /\ AppIdle

Classify ==
    /\ flight = NoFlight
    /\ \E above \in BOOLEAN : flight' = ClassifyFlightType(flight_df, above)
    /\ UNCHANGED flight_df
    /\ UNCHANGED <<syncVars, parseVars, extractorVars, appVars>>

NextClassify == Classify

SpecClassify == InitClassify /\ [][NextClassify]_vars

----------------------------------------------------------------------------
(* Properties of classify_flight_type *)

Classified == flight.type # "none"

PresentIn(col) ==
    /\ col \in flight_df.columns
    /\ \E i \in 1..Len(flight_df.rows) : ~IsMissing(flight_df.rows[i].vals[col])

\* The sum of the present gimbal_pitch values, which are whole numbers, and
\* their count
PitchRows == {i \in 1..Len(flight_df.rows) : ~IsMissing(flight_df.rows[i].vals["gimbal_pitch"])}

RECURSIVE PitchSum(_)
PitchSum(rows) ==
    IF rows = {} THEN 0
    ELSE LET i == CHOOSE j \in rows : TRUE
         IN  flight_df.rows[i].vals["gimbal_pitch"].n + PitchSum(rows \ {i})

\* The yaw variation of the series in exact arithmetic
Dispersion == CircularDeviation(DropNa(flight_df, "yaw"))

\* C17: an empty series is Unknown; a series with a present gimbal_pitch and
\* a present yaw value is Nadir Mapping iff avg_pitch < -80 and
\* yaw_variation < 30, Orbit/Structure iff -60 < avg_pitch < -30 and
\* yaw_variation > 30, and Mixed/Other otherwise, avg_pitch being the mean of
\* the present pitch values and yaw_variation the dispersion of the present
\* yaw values.
C17_ClassifiedByThresholds ==
    Classified =>
        /\ flight_df.rows = <<>> => flight.type = "Unknown"
        /\ PresentIn("gimbal_pitch") /\ PresentIn("yaw") =>
              LET sum == PitchSum(PitchRows)
                  count == Cardinality(PitchRows)
                  v == Dispersion
                  nadir == sum < -80 * count /\ v.lo < 30
                  orbit == /\ -60 * count < sum
                           /\ sum < -30 * count
                           /\ (v.lo > 30 \/ (v.lo = 30 /\ ~v.exact))
              IN  /\ flight.type = "Nadir Mapping" <=> nadir
                  /\ flight.type = "Orbit/Structure" <=> orbit
                  /\ flight.type = "Mixed/Other" <=> ~nadir /\ ~orbit

\* C18: a non-empty series without a present yaw value has yaw_variation
\* 180 and is never Nadir Mapping.
C18_NoYawIsMaxDispersion ==
    Classified /\ flight_df.rows # <<>> /\ ~PresentIn("yaw") =>
        /\ flight.yaw_variation = Degrees(180, TRUE)
        /\ flight.type # "Nadir Mapping"

----------------------------------------------------------------------------
(* FrameExtractor.calculate_frame_timestamps *)

MaxFrameCount == 5
MantissaBits == 4

RECURSIVE Pow2(_)
Pow2(k) == IF k = 0 THEN 1 ELSE 2 * Pow2(k - 1)

\* a / b rounded to a whole number, halves to the even one (a >= 0, b > 0)
RoundHalfEven(a, b) ==
    LET q == a \div b
        r == a % b
    IN  IF 2 * r < b THEN q
        ELSE IF 2 * r > b THEN q + 1
        ELSE IF q % 2 = 0 THEN q ELSE q + 1

\* The smallest k with a < b * 2^k (a, b > 0), searched upwards from lo
RECURSIVE Log2Above(_, _, _)
Log2Above(a, b, lo) ==
    IF (IF lo >= 0 THEN a < b * Pow2(lo) ELSE a * Pow2(-lo) < b) THEN lo
    ELSE Log2Above(a, b, lo + 1)

\* The float nearest to n / d (n >= 0, d > 0): a mantissa of MantissaBits
\* bits times a power of two, as every result of a float operation is
RoundFloat(n, d) ==
    IF n = 0 THEN Num(0, 1)
    ELSE LET e == Log2Above(n, d, -20) - MantissaBits
             m == IF e >= 0 THEN RoundHalfEven(n, d * Pow2(e))
                  ELSE RoundHalfEven(n * Pow2(-e), d)
         IN  IF e >= 0 THEN Num(m * Pow2(e), 1) ELSE Num(m, Pow2(-e))

\* The check of frame_rate done only when a frame is there
CalculateFrameTimestampsLateCheck(count, rate) ==
    IF count <= 0 THEN [status |-> "ok", list |-> <<>>]
    ELSE IF rate.n <= 0 THEN [status |-> "ValueError", list |-> <<>>]
    ELSE LET interval == RoundFloat(rate.d, rate.n)
         IN  [status |-> "ok",
              list |-> [k \in 1..count |->
                           RoundFloat((k - 1) * interval.n, interval.d)]]

\* FrameExtractor.calculate_frame_timestamps: interval = 1.0 / frame_rate,
\* then i * interval for i in range(num_frames), each a float operation
CalculateFrameTimestamps(count, rate) ==
    IF rate.n <= 0 THEN [status |-> "ValueError", list |-> <<>>]
    ELSE LET interval == RoundFloat(rate.d, rate.n)
         IN  [status |-> "ok",
              list |-> [k \in 1..(IF count > 0 THEN count ELSE 0) |->
                           RoundFloat((k - 1) * interval.n, interval.d)]]

----------------------------------------------------------------------------
(* calculate_frame_timestamps as a state machine *)

FrameCounts == -1..MaxFrameCount

\* Frame rates that are floats of four bits
FrameRates ==
    {Num(-2, 1), Num(-1, 1), Num(-1, 2), Num(0, 1), Num(1, 4), Num(1, 2),
     Num(1, 1), Num(2, 1), Num(3, 1), Num(4, 1), Num(5, 1), Num(6, 1),
     Num(10, 1), Num(12, 1), Num(15, 1)}

InitExtractor ==
    /\ ExtractorIdle /\ AppIdle
    /\ SyncIdle
    /\ ParseIdle
    /\ ClassifyIdle

CallCalculateFrameTimestamps ==
    /\ \E count \in FrameCounts, rate \in FrameRates :
          /\ num_frames' = count
          /\ frame_rate' = rate
          /\ returned_timestamps' = CalculateFrameTimestamps(count, rate)
    /\ UNCHANGED <<syncVars, parseVars, classifyVars, appVars>>

NextExtractor == CallCalculateFrameTimestamps

SpecExtractor == InitExtractor /\ [][NextExtractor]_vars

----------------------------------------------------------------------------
(* Properties of calculate_frame_timestamps *)

TimestampsCalled == returned_timestamps.status # "none"

\* a < b for two numbers
NumLess(a, b) == a.n * b.d < b.n * a.d

\* C19: for a positive frame rate and a frame count of at least 0 the call
\* returns frame_count timestamps, the i-th (from 0) the float i / frame_rate;
\* the list starts at 0 and is strictly increasing.
C19_TimestampsAreIOverRate ==
    TimestampsCalled /\ frame_rate.n > 0 /\ num_frames >= 0 =>
        /\ returned_timestamps.status = "ok"
        /\ Len(returned_timestamps.list) = num_frames
        /\ \A i \in 0..(num_frames - 1) :
              returned_timestamps.list[i + 1] =
                 RoundFloat(i * frame_rate.d, frame_rate.n)
        /\ \A i \in 1..(num_frames - 1) :
              NumLess(returned_timestamps.list[i], returned_timestamps.list[i + 1])

\* C20: for a frame rate of 0 or less the call raises the invalid-rate
\* error and returns no timestamps, whatever the frame count is.
C20_InvalidRateRaises ==
    TimestampsCalled /\ frame_rate.n <= 0 =>
        /\ returned_timestamps.status = "ValueError"
        /\ returned_timestamps.list = <<>>

\* The call with frame count 0 and frame rate 0 raised
C20_Witness ==
    /\ num_frames = 0
    /\ frame_rate = Num(0, 1)
    /\ returned_timestamps.status = "ValueError"

----------------------------------------------------------------------------
(* SRTParser.validate_duration: the timestamp column of the parsed data    *)
(* frame against the duration of the video.  Timestamps, the duration and  *)
(* the tolerance are whole numbers of model time units.                    *)

MaxStamp == 4
MaxDuration == 4

ColumnMax(column) == Max(SeqToSet(column))

\* A variant that rejects a difference equal to the tolerance
ValidateDurationStrict(srt_df, duration, tol) ==
    IF srt_df = <<>> THEN FALSE
    ELSE LET srt_duration == ColumnMax(srt_df)
             diff == Abs(srt_duration - duration)
         IN  IF diff >= tol THEN FALSE ELSE TRUE

ValidateDuration(srt_df, duration, tol) ==
    IF srt_df = <<>> THEN FALSE
    ELSE LET srt_duration == ColumnMax(srt_df)
             diff == Abs(srt_duration - duration)
         IN  IF diff > tol THEN FALSE ELSE TRUE

\* Tolerances of the callers: the default and the one of the test suite
Tolerances == {0, 1, DefaultTolerance}

InitValidate ==
    /\ \E n \in 0..MaxSamples :
          \E column \in [1..n -> 0..MaxStamp] : srt_timestamps = column
    /\ video_duration \in 0..MaxDuration
    /\ tolerance \in Tolerances
    /\ duration_ok = NotValidated
    /\ SyncIdle /\ ParseIdle /\ ClassifyIdle /\ ExtractorIdle
    /\ ExifIdle /\ PipelineIdle /\ WebODMIdle

CallValidateDuration ==
    /\ duration_ok = NotValidated
    /\ duration_ok' =
          [status |-> "returned",
           value |-> ValidateDuration(srt_timestamps, video_duration,
                                      tolerance)]
    /\ UNCHANGED <<srt_timestamps, video_duration, tolerance>>
    /\ UNCHANGED <<syncVars, parseVars, classifyVars, extractorVars>>
    /\ UNCHANGED <<exifVars, pipelineVars, webodmVars>>

NextValidate == CallValidateDuration

SpecValidate == InitValidate /\ [][NextValidate]_vars

NonDecreasing(column) ==
    \A i \in 1..(Len(column) - 1) : column[i] <= column[i + 1]

LastStamp == srt_timestamps[Len(srt_timestamps)]

\* C21: validate_duration always returns a boolean; it returns False for an
\* empty sample set, and for a non-empty one with non-decreasing timestamps
\* it returns True exactly when the last timestamp and the video duration
\* differ by at most the tolerance.
C21_ValidWithinTolerance ==
    duration_ok # NotValidated =>
        /\ duration_ok.status = "returned"
        /\ duration_ok.value \in BOOLEAN
        /\ srt_timestamps = <<>> => duration_ok.value = FALSE
        /\ (srt_timestamps # <<>> /\ NonDecreasing(srt_timestamps)) =>
              (duration_ok.value = TRUE <=>
                 Abs(LastStamp - video_duration) <= tolerance)

\* A difference exactly equal to the default tolerance passes
C21_Witness ==
    /\ Len(srt_timestamps) = 2
    /\ srt_timestamps[1] < srt_timestamps[2]
    /\ tolerance = DefaultTolerance
    /\ Abs(LastStamp - video_duration) = tolerance
    /\ duration_ok = [status |-> "returned", value |-> TRUE]

----------------------------------------------------------------------------
(* Frames at the timestamp of a sample *)

SamplesAt(t) == {i \in 1..Len(telemetry_df.rows) : TimeOf(i) = t}

----------------------------------------------------------------------------
(* Values that cannot be evaluated *)

ShutterTextsOf(block) ==
    {block[3].tokens[j].text : j \in {k \in 1..Len(block[3].tokens) :
                                       block[3].tokens[k].key = K_shutter}}

\* The shutter text of the block is '1/2/3' or a fraction a/0
UnevaluableShutter(block) ==
    /\ Len(block) >= 3
    /\ \E t \in ShutterTextsOf(block) :
          t = Malformed \/ (t.form = "fraction" /\ t.b = 0)

RowOfBlock(block, row) ==
    /\ row.timestamp = SecondsOf(block[2].start)
    /\ \A f \in SeqToSet(ParserFields) \ {"shutter"} :
          row.vals[f] = IF ExtractValue(block[3].tokens, f) = None THEN NaN
                        ELSE ExtractValue(block[3].tokens, f)

\* C27: when a block with a parseable timestamp has a shutter text that
\* cannot be evaluated (two slashes, or denominator 0), parse raises nothing
\* and returns the samples of all timed blocks, the shutter of that block
\* missing.
C27_UnevaluableIsMissing ==
    parse_calls >= 1 =>
        \A i \in 1..Len(srt_file) :
            (HasParseableTime(srt_file[i]) /\ UnevaluableShutter(srt_file[i]))
            => /\ parse_result.status = "ok"
               /\ \E k \in 1..Len(parse_result.rows) :
                     /\ RowOfBlock(srt_file[i], parse_result.rows[k])
                     /\ parse_result.rows[k].vals["shutter"] = NaN
               /\ \A j \in 1..Len(srt_file) :
                     HasParseableTime(srt_file[j]) =>
                        \E k \in 1..Len(parse_result.rows) :
                            RowOfBlock(srt_file[j], parse_result.rows[k])

----------------------------------------------------------------------------
(* ExifInjector: the ExifTool command of an image.  A telemetry record is  *)
(* a dict; a key it does not have holds the cell Absent.  A tag of the     *)
(* command is its name with the cell it was formatted from, or with a text. *)

MaxImages == 2

Absent == [kind |-> "absent", n |-> 0, d |-> 1]
TextCell == [kind |-> "text", n |-> 0, d |-> 1]

ExifFields ==
    {"latitude", "longitude", "altitude", "rel_altitude", "gimbal_pitch",
     "gimbal_yaw", "yaw", "iso", "shutter"}

\* telemetry.get(key)
Get(tel, key) == IF tel[key].kind = "absent" THEN None ELSE tel[key]

\* telemetry.get(key, default)
GetDefault(tel, key, default) ==
    IF tel[key].kind = "absent" THEN default ELSE tel[key]

\* bool(value): None and 0 are false, NaN and every other number are true
Truthy(value) ==
    value.kind = "nan" \/ (value.kind = "num" /\ value.n # 0)

\* a or b
Or(a, b) == IF Truthy(a) THEN a ELSE b

\* value >= 0: False for NaN
NotNegative(value) == value.kind = "num" /\ value.n >= 0

\* abs(value)
AbsCell(value) ==
    IF value.kind = "num" THEN Num(Abs(value.n), value.d) ELSE value

Tag(name, value) == [tag |-> name, value |-> value, text |-> ""]
TextTag(name, text) == [tag |-> name, value |-> TextCell, text |-> text]

\* The tags inject_metadata puts on the command, in its order
Command(tel) ==
    LET lat == Get(tel, "latitude")
        lon == Get(tel, "longitude")
        altitude == Or(Get(tel, "rel_altitude"), Get(tel, "altitude"))
        when(value, tags) == IF value # None THEN tags ELSE <<>>
    IN  when(lat,
             <<Tag("GPSLatitude", AbsCell(lat)),
               TextTag("GPSLatitudeRef",
                       IF NotNegative(lat) THEN "N" ELSE "S")>>)
        \o when(lon,
             <<Tag("GPSLongitude", AbsCell(lon)),
               TextTag("GPSLongitudeRef",
                       IF NotNegative(lon) THEN "E" ELSE "W")>>)
        \o when(altitude,
             <<Tag("GPSAltitude", AbsCell(altitude)),
               TextTag("GPSAltitudeRef",
                       IF NotNegative(altitude) THEN "0" ELSE "1"),
               Tag("AbsoluteAltitude", altitude),
               Tag("RelativeAltitude",
                   GetDefault(tel, "rel_altitude", altitude))>>)
        \o when(Get(tel, "gimbal_pitch"),
             <<Tag("XMP:GimbalPitchDegree", tel["gimbal_pitch"]),
               Tag("CameraElevationAngle", tel["gimbal_pitch"])>>)
        \o when(Get(tel, "gimbal_yaw"),
             <<Tag("XMP:GimbalYawDegree", tel["gimbal_yaw"])>>)
        \o when(Get(tel, "yaw"),
             <<Tag("XMP:FlightYawDegree", tel["yaw"]),
               Tag("GPSImgDirection", tel["yaw"]),
               TextTag("GPSImgDirectionRef", "T")>>)
        \o when(Get(tel, "iso"),
             <<Tag("ISO", Num(tel["iso"].n \div tel["iso"].d, 1))>>)
        \o when(Get(tel, "shutter"),
             <<Tag("ShutterSpeed", tel["shutter"])>>)
        \o <<TextTag("Make", "DJI"), TextTag("Model", "Mini 3"),
             TextTag("overwrite_original", "")>>

\* ExifInjector.inject_metadata: int(NaN) raises ValueError while the command
\* is built; ExifTool's exit status decides between True and False.
InjectMetadata(image, tel) ==
    IF ~image.exists THEN [status |-> "FileNotFoundError", cmd |-> <<>>]
    ELSE IF Get(tel, "iso").kind = "nan"
    THEN [status |-> "ValueError", cmd |-> <<>>]
    ELSE [status |-> IF image.exiftool_ok THEN "True" ELSE "False",
          cmd |-> Command(tel)]

\* inject_metadata ran ExifTool
Ran(r) == r.status \in {"True", "False"}

Pairs(paths, records) ==
    [i \in 1..Min({Len(paths), Len(records)}) |->
        [index |-> i, r |-> InjectMetadata(paths[i], records[i])]]

\* The work of the loop over zip(image_paths, telemetry_list): the commands
\* run, the calls of the progress callback, and the count of successes
Loop(paths, records, callback) ==
    LET pairs == Pairs(paths, records)
        ran == SelectSeq(pairs, LAMBDA q : Ran(q.r))
    IN  [success_count |->
             Len(SelectSeq(pairs, LAMBDA q : q.r.status = "True")),
         commands |-> [k \in 1..Len(ran) |->
                          [image |-> ran[k].index, cmd |-> ran[k].r.cmd]],
         progress |-> IF callback
                      THEN [k \in 1..Len(ran) |->
                               <<ran[k].index, Len(paths)>>]
                      ELSE <<>>]

\* A variant that compares the lengths after the loop
BatchInjectLateCheck(paths, records, callback) ==
    IF Len(paths) # Len(records)
    THEN [status |-> "ValueError", success_count |-> 0,
          commands |-> Loop(paths, records, callback).commands,
          progress |-> Loop(paths, records, callback).progress]
    ELSE [status |-> "returned"] @@ Loop(paths, records, callback)

\* ExifInjector.batch_inject
BatchInject(paths, records, callback) ==
    IF Len(paths) # Len(records)
    THEN [status |-> "ValueError", success_count |-> 0,
          commands |-> <<>>, progress |-> <<>>]
    ELSE [status |-> "returned"] @@ Loop(paths, records, callback)

\* An image file: whether it exists, and whether ExifTool succeeds on it
Images == [exists : BOOLEAN, exiftool_ok : BOOLEAN]

Record(lat, lon, alt, rel, iso) ==
    [f \in ExifFields |->
        CASE f = "latitude" -> lat
          [] f = "longitude" -> lon
          [] f = "altitude" -> alt
          [] f = "rel_altitude" -> rel
          [] f = "iso" -> iso
          [] f = "yaw" -> Num(45, 1)
          [] OTHER -> Absent]

LatitudeCells == {Absent, None, NaN, Num(-69, 2), Num(12, 1)}
LongitudeCells == {NaN, Num(-58, 1)}
AltitudeCells == {Absent, None, Num(0, 1), Num(150, 1)}
RelAltitudeCells == {Absent, None, NaN, Num(0, 1), Num(50, 1)}
IsoCells == {Absent, NaN, Num(100, 1)}

\* The records of a batch: complete, without a latitude, with a NaN iso
BatchRecords ==
    {Record(Num(12, 1), Num(-58, 1), Num(150, 1), Num(50, 1), Num(100, 1)),
     Record(NaN, Num(-58, 1), Num(150, 1), Num(50, 1), Absent),
     Record(Num(12, 1), Num(-58, 1), Num(150, 1), Absent, NaN)}

InitExif ==
    /\ \/ /\ \E image \in Images : image_paths = <<image>>
          /\ \E lat \in LatitudeCells, lon \in LongitudeCells,
                alt \in AltitudeCells, rel \in RelAltitudeCells,
                iso \in IsoCells :
                telemetry_list = <<Record(lat, lon, alt, rel, iso)>>
       \/ /\ \E n \in 0..MaxImages :
                \E paths \in [1..n -> Images] : image_paths = paths
          /\ \E n \in 0..MaxImages :
                \E records \in [1..n -> BatchRecords] :
                    telemetry_list = records
    /\ progress_callback \in BOOLEAN
    /\ commands = <<>>
    /\ progress = <<>>
    /\ inject_result = NotInjected
    /\ batch_result = NoBatch
    /\ SyncIdle /\ ParseIdle /\ ClassifyIdle /\ ExtractorIdle
    /\ ValidateIdle /\ PipelineIdle /\ WebODMIdle

NotYetCalled == inject_result = NotInjected /\ batch_result = NoBatch

CallInjectMetadata ==
    /\ NotYetCalled
    /\ Len(image_paths) >= 1 /\ Len(telemetry_list) >= 1
    /\ LET r == InjectMetadata(image_paths[1], telemetry_list[1])
       IN  /\ inject_result' = r
           /\ commands' = IF Ran(r) THEN <<[image |-> 1, cmd |-> r.cmd]>>
                          ELSE <<>>
    /\ UNCHANGED <<image_paths, telemetry_list, progress_callback, progress,
                   batch_result>>
    /\ UNCHANGED <<syncVars, parseVars, classifyVars, extractorVars>>
    /\ UNCHANGED <<validateVars, pipelineVars, webodmVars>>

CallBatchInject ==
    /\ NotYetCalled
    /\ LET b == BatchInject(image_paths, telemetry_list, progress_callback)
       IN  /\ batch_result' = [status |-> b.status,
                               success_count |-> b.success_count]
           /\ commands' = b.commands
           /\ progress' = b.progress
    /\ UNCHANGED <<image_paths, telemetry_list, progress_callback,
                   inject_result>>
    /\ UNCHANGED <<syncVars, parseVars, classifyVars, extractorVars>>
    /\ UNCHANGED <<validateVars, pipelineVars, webodmVars>>

NextExif == CallInjectMetadata \/ CallBatchInject

SpecExif == InitExif /\ [][NextExif]_vars

Missing(cell) == cell.kind \in {"absent", "none", "nan"}

HasTag(cmd, name) == \E k \in 1..Len(cmd) : cmd[k].tag = name

TagValue(cmd, name) ==
    cmd[CHOOSE k \in 1..Len(cmd) : cmd[k].tag = name].value

Injected == inject_result.status # "none" /\ image_paths[1].exists

\* C22: every tag on the command was formatted from a real number; a
\* latitude or longitude that is absent, None or NaN puts no GPS latitude or
\* longitude tag on it, and the call still runs ExifTool with the tags of the
\* other fields.
C22_TagsOnlyForNumbers ==
    Injected =>
        LET tel == telemetry_list[1]
            cmd == inject_result.cmd
        IN  /\ Missing(tel["latitude"]) =>
                  ~HasTag(cmd, "GPSLatitude") /\ ~HasTag(cmd, "GPSLatitudeRef")
            /\ Missing(tel["longitude"]) =>
                  ~HasTag(cmd, "GPSLongitude")
                      /\ ~HasTag(cmd, "GPSLongitudeRef")
            /\ \A k \in 1..Len(cmd) : cmd[k].value.kind \in {"num", "text"}
            /\ (Missing(tel["latitude"]) \/ Missing(tel["longitude"])) =>
                  /\ Ran(inject_result)
                  /\ HasTag(cmd, "XMP:FlightYawDegree")

AltitudeTags ==
    {"GPSAltitude", "GPSAltitudeRef", "AbsoluteAltitude", "RelativeAltitude"}

AltitudeTagsFrom(cmd, value) ==
    /\ \A name \in AltitudeTags : HasTag(cmd, name)
    /\ TagValue(cmd, "GPSAltitude") = AbsCell(value)
    /\ TagValue(cmd, "AbsoluteAltitude") = value

\* C28: the altitude tags are taken from rel_altitude when it is a number,
\* 0 included, from altitude when rel_altitude is missing and altitude is a
\* number, and are left out when both are missing.
C28_AltitudeFromRelAltitude ==
    (Injected /\ Ran(inject_result)) =>
        LET rel == telemetry_list[1]["rel_altitude"]
            alt == telemetry_list[1]["altitude"]
            cmd == inject_result.cmd
        IN  /\ rel.kind = "num" => AltitudeTagsFrom(cmd, rel)
            /\ (Missing(rel) /\ alt.kind = "num") => AltitudeTagsFrom(cmd, alt)
            /\ (Missing(rel) /\ Missing(alt)) =>
                  \A name \in AltitudeTags : ~HasTag(cmd, name)

\* C25: batch_inject with lists of different lengths raises ValueError, runs
\* ExifTool on no image and never calls the progress callback.
C25_MismatchRaisesFirst ==
    (batch_result.status # "none" /\ Len(image_paths) # Len(telemetry_list))
    => /\ batch_result.status = "ValueError"
       /\ commands = <<>>
       /\ progress = <<>>

\* Two existing images, one record and a callback: ValueError
C25_Witness ==
    /\ Len(image_paths) = 2
    /\ Len(telemetry_list) = 1
    /\ \A i \in 1..2 : image_paths[i].exists /\ image_paths[i].exiftool_ok
    /\ progress_callback
    /\ batch_result.status = "ValueError"

----------------------------------------------------------------------------
(* PhotogrammetryApp: the processing flag and the pipeline threads.  The   *)
(* handler _start_processing runs on the UI thread; every accepted request *)
(* starts one thread that runs _process_pipeline.  A thread is at the step *)
(* it executes next; events[t] lists the steps thread t has executed, each *)
(* with its outcome.  Whether a step raises, whether the durations match   *)
(* and what the user answers are choices of the environment.               *)

Threads == 1..MaxRuns

Event(step, outcome) == [step |-> step, outcome |-> outcome]

\* A thread that has been started and has not left _process_pipeline
Running(t) == thread_pc[t] \notin {"unborn", "done"}

\* _start_processing, with the flag it tests
StartRequest(busy) ==
    \E video_ok \in BOOLEAN, srt_ok \in BOOLEAN :
        LET request(outcome) == [video_ok |-> video_ok, srt_ok |-> srt_ok,
                                 outcome |-> outcome]
        IN  IF busy
            THEN /\ start_request' = request("busy")
                 /\ UNCHANGED <<processing, thread_pc, events, started>>
            ELSE IF ~video_ok
            THEN /\ start_request' = request("invalid video")
                 /\ UNCHANGED <<processing, thread_pc, events, started>>
            ELSE IF ~srt_ok
            THEN /\ start_request' = request("invalid srt")
                 /\ UNCHANGED <<processing, thread_pc, events, started>>
            ELSE /\ started < MaxRuns
                 /\ start_request' = request("started")
                 /\ processing' = TRUE
                 /\ started' = started + 1
                 /\ thread_pc' =
                       [thread_pc EXCEPT ![started + 1] = "get_video_info"]
                 /\ UNCHANGED events

\* A handler that does not test the flag
StartProcessingUnguarded ==
    /\ StartRequest(FALSE)
    /\ UNCHANGED <<syncVars, parseVars, classifyVars, extractorVars>>
    /\ UNCHANGED <<validateVars, exifVars, webodmVars>>

StartProcessing ==
    /\ StartRequest(processing)
    /\ UNCHANGED <<syncVars, parseVars, classifyVars, extractorVars>>
    /\ UNCHANGED <<validateVars, exifVars, webodmVars>>

\* A step that goes on after an exception
AfterStepContinue(next, outcome) == next

\* try/except: an exception in a step leads to the handler
AfterStep(next, outcome) == IF outcome = "raised" THEN "except" ELSE next

\* An answer that is not looked at
AfterAskIgnored(answer) ==
    IF answer = "raised" THEN "except" ELSE "extract_frames"

\* 'if not messagebox.askyesno(...): return', the return through 'finally'
AfterAsk(answer) ==
    CASE answer = "yes" -> "extract_frames"
      [] answer = "no" -> "finally"
      [] OTHER -> "except"

Advance(t, step, outcome, next) ==
    /\ events' = [events EXCEPT ![t] = Append(@, Event(step, outcome))]
    /\ thread_pc' = [thread_pc EXCEPT ![t] = next]
    /\ UNCHANGED <<processing, started, start_request>>
    /\ UNCHANGED <<syncVars, parseVars, classifyVars, extractorVars>>
    /\ UNCHANGED <<validateVars, exifVars, webodmVars>>

RunStep(t, step, next) ==
    /\ thread_pc[t] = step
    /\ \E outcome \in {"ok", "raised"} :
          Advance(t, step, outcome, AfterStep(next, outcome))

\* Step 1: FrameExtractor(...).get_video_info()
StepGetVideoInfo(t) == RunStep(t, "get_video_info", "parse")

\* Step 2: SRTParser(...).parse()
StepParse(t) == RunStep(t, "parse", "validate_duration")

\* parser.validate_duration(telemetry_df, video_info['duration'])
StepValidateDuration(t) ==
    /\ thread_pc[t] = "validate_duration"
    /\ \E outcome \in {"ok", "mismatch"} :
          Advance(t, "validate_duration", outcome,
                  IF outcome = "ok" THEN "extract_frames" ELSE "askyesno")

\* messagebox.askyesno("Warning", ...)
StepAskYesNo(t) ==
    /\ thread_pc[t] = "askyesno"
    /\ \E answer \in {"yes", "no", "raised"} :
          Advance(t, "askyesno", answer, AfterAsk(answer))

\* Step 3: extractor.extract_frames(...)
StepExtractFrames(t) ==
    RunStep(t, "extract_frames", "synchronize_and_interpolate")

\* Step 4: calculate_frame_timestamps and synchronize_and_interpolate
StepSynchronize(t) ==
    RunStep(t, "synchronize_and_interpolate", "classify_flight_type")

\* synchronizer.classify_flight_type(frame_telemetry)
StepClassify(t) == RunStep(t, "classify_flight_type", "batch_inject")

\* Step 5: ExifInjector().batch_inject(...), then the success messages
StepBatchInject(t) == RunStep(t, "batch_inject", "finally")

\* except Exception: log and showerror
HandleException(t) ==
    /\ thread_pc[t] = "except"
    /\ thread_pc' = [thread_pc EXCEPT ![t] = "finally"]
    /\ UNCHANGED <<processing, events, started, start_request>>
    /\ UNCHANGED <<syncVars, parseVars, classifyVars, extractorVars>>
    /\ UNCHANGED <<validateVars, exifVars, webodmVars>>

\* finally: self.processing = False
Finally(t) ==
    /\ thread_pc[t] = "finally"
    /\ processing' = FALSE
    /\ thread_pc' = [thread_pc EXCEPT ![t] = "done"]
    /\ UNCHANGED <<events, started, start_request>>
    /\ UNCHANGED <<syncVars, parseVars, classifyVars, extractorVars>>
    /\ UNCHANGED <<validateVars, exifVars, webodmVars>>

\* _process_pipeline of thread t
ProcessPipeline(t) ==
    \/ StepGetVideoInfo(t)
    \/ StepParse(t)
    \/ StepValidateDuration(t)
    \/ StepAskYesNo(t)
    \/ StepExtractFrames(t)
    \/ StepSynchronize(t)
    \/ StepClassify(t)
    \/ StepBatchInject(t)
    \/ HandleException(t)
    \/ Finally(t)

InitPipeline ==
    /\ PipelineIdle
    /\ SyncIdle /\ ParseIdle /\ ClassifyIdle /\ ExtractorIdle
    /\ ValidateIdle /\ ExifIdle /\ WebODMIdle

NextPipeline == StartProcessing \/ \E t \in Threads : ProcessPipeline(t)

SpecPipeline == InitPipeline /\ [][NextPipeline]_vars

\* A started thread is scheduled, its steps return, and the user answers
\* the dialog: every thread goes on as long as it has a step to take.
SpecPipelineLive ==
    SpecPipeline /\ \A t \in Threads : WF_vars(ProcessPipeline(t))

HasEvent(ev, step) == \E j \in 1..Len(ev) : ev[j].step = step

\* C23: after validate_duration reported a mismatch the pipeline asks the
\* user next, before any frame is extracted; frames are extracted only after
\* the answer yes, and after the answer no the run ends without a frame
\* extracted or geotagged.
C23_ConfirmBeforeExtraction ==
    \A t \in Threads :
        LET ev == events[t]
        IN  /\ \A j \in 1..Len(ev) :
                  ev[j] = Event("validate_duration", "mismatch") =>
                      /\ Len(ev) = j => thread_pc[t] = "askyesno"
                      /\ Len(ev) > j => ev[j + 1].step = "askyesno"
                      /\ \A k \in (j + 1)..Len(ev) :
                            ev[k].step = "extract_frames" =>
                                ev[j + 1] = Event("askyesno", "yes")
            /\ \A j \in 1..Len(ev) :
                  ev[j] = Event("askyesno", "no") =>
                      /\ j = Len(ev)
                      /\ thread_pc[t] \in {"finally", "done"}
                      /\ ~HasEvent(ev, "extract_frames")
                      /\ ~HasEvent(ev, "batch_inject")

\* A run with a mismatch that the user confirmed extracted frames
C23_Witness ==
    \E t \in Threads :
        /\ Len(events[t]) >= 5
        /\ events[t][3] = Event("validate_duration", "mismatch")
        /\ events[t][4] = Event("askyesno", "yes")
        /\ events[t][5] = Event("extract_frames", "ok")

\* A run with a mismatch that the user declined has ended
C23_WitnessDeclined ==
    \E t \in Threads :
        /\ Len(events[t]) = 4
        /\ events[t][3] = Event("validate_duration", "mismatch")
        /\ events[t][4] = Event("askyesno", "no")
        /\ thread_pc[t] = "done"

\* The order of the steps as the claim has it, and as _process_pipeline has
ClaimedOrder ==
    <<"extract_frames", "parse", "synchronize_and_interpolate",
      "classify_flight_type", "batch_inject">>
PipelineOrder ==
    <<"parse", "extract_frames", "synchronize_and_interpolate",
      "classify_flight_type", "batch_inject">>

\* Every step of the order was taken after the step before it had completed
Sequenced(order, ev) ==
    \A i \in 2..Len(order) :
        \A k \in 1..Len(ev) :
            ev[k].step = order[i] =>
                \E j \in 1..(k - 1) : ev[j] = Event(order[i - 1], "ok")

FailureIsLast(ev) ==
    \A j \in 1..Len(ev) : ev[j].outcome = "raised" => j = Len(ev)

OncePerRun(ev) ==
    \A j, k \in 1..Len(ev) : ev[j].step = ev[k].step => j = k

\* C24 as stated: in every run the steps are taken in the order frame
\* extraction, parse, synchronize, classify, geotag, each after the one
\* before it has completed, and no step is taken after one that failed.
C24_StepsInClaimedOrder ==
    \A t \in Threads :
        /\ Sequenced(ClaimedOrder, events[t])
        /\ OncePerRun(events[t])
        /\ FailureIsLast(events[t])

\* C24, amended: in every run the steps are taken in the order parse, frame
\* extraction, synchronize, classify, geotag, each after the one before it
\* has completed, and no step is taken after one that failed.
C24_StepsInPipelineOrder ==
    \A t \in Threads :
        /\ Sequenced(PipelineOrder, events[t])
        /\ OncePerRun(events[t])
        /\ FailureIsLast(events[t])

\* A run that took all five steps, and one that stopped at a failed parse
C24_Witness ==
    /\ \A i \in 1..Len(PipelineOrder) :
          \E j \in 1..Len(events[1]) :
              events[1][j] = Event(PipelineOrder[i], "ok")
    /\ thread_pc[1] = "done"
    /\ events[2] = <<Event("get_video_info", "ok"), Event("parse", "raised")>>
    /\ thread_pc[2] = "done"

RunningThreads == {t \in Threads : Running(t)}

\* C29: at most one pipeline thread runs, and the flag is True exactly while
\* one runs; a thread is started only by a request with valid files made
\* while the flag is False, which sets the flag; a thread that ends leaves
\* the flag False; and whenever the flag is True it becomes False again.
C29_OnePipelineAtATime ==
    /\ [](Cardinality(RunningThreads) <= 1)
    /\ [](processing <=> RunningThreads # {})
    /\ [][started' # started =>
             /\ ~processing /\ processing'
             /\ start_request'.video_ok /\ start_request'.srt_ok
             /\ started' = started + 1]_vars
    /\ [][\A t \in Threads :
             (thread_pc[t] # "done" /\ thread_pc'[t] = "done")
                 => processing' = FALSE]_vars
    /\ (processing ~> ~processing)

\* A second run was started after the user had cancelled the first, and a
\* request made while it runs was turned down
C29_Witness ==
    /\ Len(events[1]) = 4
    /\ events[1][4] = Event("askyesno", "no")
    /\ thread_pc[1] = "done"
    /\ Running(2)
    /\ processing
    /\ start_request.outcome = "busy"

----------------------------------------------------------------------------
(* WebODMClient.wait_for_completion.  Time is counted in units of the five *)
(* seconds the loop sleeps between two polls; a status request takes no    *)
(* time or one unit.  A poll is what get_task_status returned: no answer   *)
(* (the request failed), or a task status with its code.                   *)

MaxTimeout == 3

Failed == 30
Completed == 40
Canceled == 50
\* The codes that let the wait go on: queued, running, and 0 for a
\* status_data without a status code, where .get('code') gives None
OtherCodes == {0, 10, 20}

RequestFailed == [ok |-> FALSE, code |-> 0]
Status(code) == [ok |-> TRUE, code |-> code]

PollOutcomes ==
    {RequestFailed}
        \cup {Status(c) : c \in OtherCodes \cup {Failed, Completed, Canceled}}

\* A callback that is told of the polls that do not end the wait only
ProgressAfterTerminalCheck(reported, outcome, callback) ==
    IF callback /\ outcome.ok /\ outcome.code \notin {Failed, Completed,
                                                      Canceled}
    THEN Append(reported, outcome.code)
    ELSE reported

\* 'if not status_data: return False' comes before the callback, the test
\* of the status code after it
ProgressCalls(reported, outcome, callback) ==
    IF callback /\ outcome.ok THEN Append(reported, outcome.code)
    ELSE reported

\* What the iteration does after the poll: "True", "False" or go on
Verdict(outcome) ==
    IF ~outcome.ok THEN "False"
    ELSE IF outcome.code = Completed THEN "True"
    ELSE IF outcome.code \in {Failed, Canceled} THEN "False"
    ELSE "none"

InitWebODM ==
    /\ wait_timeout \in 0..MaxTimeout
    /\ wait_callback \in BOOLEAN
    /\ elapsed = 0
    /\ polls = <<>>
    /\ progress_calls = <<>>
    /\ wait_result = "none"
    /\ SyncIdle /\ ParseIdle /\ ClassifyIdle /\ ExtractorIdle
    /\ ValidateIdle /\ ExifIdle /\ PipelineIdle

\* One iteration of the loop: the status request, the callback, the test of
\* the code, and the sleep when the wait goes on
PollStatus ==
    /\ wait_result = "none"
    /\ elapsed < wait_timeout
    /\ \E outcome \in PollOutcomes, latency \in 0..1 :
          /\ polls' = Append(polls, outcome)
          /\ progress_calls' =
                ProgressCalls(progress_calls, outcome, wait_callback)
          /\ wait_result' = Verdict(outcome)
          /\ elapsed' = IF Verdict(outcome) = "none"
                        THEN elapsed + latency + 1
                        ELSE elapsed + latency
    /\ UNCHANGED <<wait_timeout, wait_callback>>
    /\ UNCHANGED <<syncVars, parseVars, classifyVars, extractorVars>>
    /\ UNCHANGED <<validateVars, exifVars, pipelineVars>>

\* The loop condition fails: "Timeout waiting for task completion"
TimeoutReturn ==
    /\ wait_result = "none"
    /\ elapsed >= wait_timeout
    /\ wait_result' = "False"
    /\ UNCHANGED <<wait_timeout, elapsed, polls, progress_calls,
                   wait_callback>>
    /\ UNCHANGED <<syncVars, parseVars, classifyVars, extractorVars>>
    /\ UNCHANGED <<validateVars, exifVars, pipelineVars>>

NextWebODM == PollStatus \/ TimeoutReturn

SpecWebODM == InitWebODM /\ [][NextWebODM]_vars

\* The poll ends the wait: a failed request or a terminal status
EndsWait(outcome) ==
    ~outcome.ok \/ outcome.code \in {Failed, Completed, Canceled}

SuccessfulPolls == SelectSeq(polls, LAMBDA o : o.ok)

\* C30: True is returned only after a poll that observed code 40; the poll
\* of a failed request or of code 30 or 50 is the last one and False is
\* returned with it; without such a poll False is returned only when the
\* timeout has elapsed, and then without another poll; there is no poll
\* after the return; and the callback has been called once for every
\* successful poll, the last one included.
C30_WaitForCompletion ==
    /\ [](wait_result = "True" =>
             Len(polls) >= 1 /\ polls[Len(polls)] = Status(Completed))
    /\ [](\A j \in 1..Len(polls) :
             EndsWait(polls[j]) =>
                 /\ j = Len(polls)
                 /\ wait_result = IF polls[j] = Status(Completed)
                                  THEN "True" ELSE "False")
    /\ []((wait_result = "False"
              /\ \A j \in 1..Len(polls) : ~EndsWait(polls[j]))
             => elapsed >= wait_timeout)
    /\ [](wait_callback =>
             progress_calls = [k \in 1..Len(SuccessfulPolls) |->
                                  SuccessfulPolls[k].code])
    /\ [][(wait_result = "none" /\ elapsed >= wait_timeout)
             => (wait_result' = "False" /\ polls' = polls)]_vars
    /\ [][wait_result # "none" => polls' = polls]_vars

\* Two polls, a running task and then a completed one, both reported
C30_Witness ==
    /\ wait_callback
    /\ polls = <<Status(20), Status(Completed)>>
    /\ progress_calls = <<20, Completed>>
    /\ wait_result = "True"

====
